---- MODULE Spec2Model ----
(***************************************************************************)
(* Model of the Polis protocol ledger (backend/polis-protocol):            *)
(*   types.rs       ImpactAction, PolisBlock, DecentralizedPoliticianState *)
(*   blockchain.rs  StanceShard (pending pool, block production, append),  *)
(*                  PolisProtocol (the coordinator of the shards)          *)
(*                                                                         *)
(* Conventions                                                             *)
(*  - A u64 is four 16-bit limbs, least significant first, so that sums    *)
(*    keep their 64-bit width (wrapping or panicking as the build does).   *)
(*  - A String / byte string is a sequence of atoms.  An atom is a tagged  *)
(*    tuple: <<0, c>> one character, <<1, p>> the 64 hex characters of the *)
(*    SHA-256 digest of byte string p, <<2, u>> the 8 little-endian bytes  *)
(*    of the u64 u, <<3, t>> the 8 little-endian bytes of the i64 t.       *)
(*    SHA-256 is taken to be collision free: the digest atom carries its   *)
(*    preimage.  Concatenation is sequence concatenation, so two different *)
(*    splits of the same bytes give the same preimage, as in the code.     *)
(*  - Option<T> is a sequence of length 0 (None) or 1 (Some).              *)
(*  - A HashMap is a function on its finite set of keys; the order in      *)
(*    which the coordinator's map of shards is iterated is part of the     *)
(*    coordinator's state.                                                 *)
(*  - An f32 is the integer it holds, or the reserved code f32_NaN.        *)
(***************************************************************************)
EXTENDS Integers, Sequences, FiniteSets, TLC

VARIABLES
    shard,            \* the StanceShard under test
    last,             \* the last call made on it: operation, arguments, result
    overflow_checks,  \* build profile: TRUE = arithmetic overflow panics, FALSE = wraps
    call,             \* a call of a pure function: its name, input and output
    protocol,         \* the PolisProtocol coordinator: shards, routing table, users
    server            \* the API server: the coordinator's lock and the handlers in flight

vars == <<shard, last, overflow_checks, call, protocol, server>>

\* no API server: the coordinator is called directly
NoServer == [lock |-> <<>>, poisoned |-> FALSE, requests |-> <<>>, handlers |-> <<>>]

(***************************************************************************)
(* Bounds of the model                                                     *)
(***************************************************************************)
MaxChain == 2
MaxPending == 2

(***************************************************************************)
(* u64 arithmetic                                                          *)
(***************************************************************************)
LimbBase == 65536

u64_from(n) == <<n % LimbBase, n \div LimbBase, 0, 0>>

u64_MAX == <<LimbBase - 1, LimbBase - 1, LimbBase - 1, LimbBase - 1>>

\* carry into limb i+1 of a + b
u64_carry(a, b, i) ==
    LET c1 == (a[1] + b[1]) \div LimbBase
        c2 == (a[2] + b[2] + c1) \div LimbBase
        c3 == (a[3] + b[3] + c2) \div LimbBase
        c4 == (a[4] + b[4] + c3) \div LimbBase
    IN  <<c1, c2, c3, c4>>[i]

\* a + b modulo 2^64 (u64::wrapping_add, what `+=` does without overflow checks)
u64_wrapping_add(a, b) ==
    << (a[1] + b[1]) % LimbBase,
       (a[2] + b[2] + u64_carry(a, b, 1)) % LimbBase,
       (a[3] + b[3] + u64_carry(a, b, 2)) % LimbBase,
       (a[4] + b[4] + u64_carry(a, b, 3)) % LimbBase >>

\* a + b does not fit in 64 bits
u64_add_overflows(a, b) == u64_carry(a, b, 4) = 1

\* `a >= b` on u64
u64_ge(a, b) ==
    \/ a = b
    \/ \E i \in 1..4 : a[i] > b[i] /\ \A j \in (i + 1)..4 : a[j] = b[j]

(***************************************************************************)
(* Strings and digests                                                     *)
(***************************************************************************)
Ch(c) == <<0, c>>
Chars(s) == [i \in DOMAIN s |-> Ch(s[i])]
le_bytes_u64(u) == <<2, u>>
le_bytes_i64(t) == <<3, t>>

\* format!("{:x}", Sha256::digest(bytes))
sha256_hex(bytes) == << <<1, bytes>> >>

\* "0".repeat(64)
zero_hash == [i \in 1..64 |-> Ch("0")]

\* str::starts_with
starts_with(s, p) == Len(s) >= Len(p) /\ SubSeq(s, 1, Len(p)) = p

firebase_prefix ==
    Chars(<<"f","i","r","e","b","a","s","e","_","v","e","r","i","f","i","e","d","_">>)

MinProofLen == 32

(***************************************************************************)
(* ActionType, ImpactAction                                                *)
(***************************************************************************)
ActionType_to_string(t) ==
    CASE t = "Boycott" -> Chars(<<"B","O","Y","C","O","T","T">>)
      [] t = "Buycott" -> Chars(<<"B","U","Y","C","O","T","T">>)
      [] t = "Vote"    -> Chars(<<"V","O","T","E">>)
      [] t = "Donate"  -> Chars(<<"D","O","N","A","T","E">>)
      [] t = "Rally"   -> Chars(<<"R","A","L","L","Y">>)

\* mutant: the action id is hashed too
ImpactAction_hash_with_id(a) ==
    sha256_hex(a.user_did
               \o ActionType_to_string(a.action_type)
               \o a.target_entity
               \o <<le_bytes_u64(a.value_diverted)>>
               \o <<le_bytes_i64(a.timestamp)>>
               \o Chars(<<a.action_id>>))

ImpactAction_hash(a) ==
    sha256_hex(a.user_did
               \o ActionType_to_string(a.action_type)
               \o a.target_entity
               \o <<le_bytes_u64(a.value_diverted)>>
               \o <<le_bytes_i64(a.timestamp)>>)

\* mutant: the length test is strict
verify_zk_proof_longer(a) ==
    /\ a.zk_proof # <<>>
    /\ \/ starts_with(a.zk_proof, firebase_prefix)
       \/ Len(a.zk_proof) > MinProofLen

verify_zk_proof(a) ==
    /\ a.zk_proof # <<>>
    /\ \/ starts_with(a.zk_proof, firebase_prefix)
       \/ Len(a.zk_proof) >= MinProofLen

(***************************************************************************)
(* PolisBlock                                                              *)
(***************************************************************************)
calculate_strength(b) == u64_from(Len(b.actions))

\* mutant: the union strength is left out of the hash
calculate_hash_without_strength(b) ==
    sha256_hex(<<le_bytes_u64(b.index), le_bytes_i64(b.timestamp)>>
               \o b.previous_hash
               \o b.merkle_root)

calculate_hash(b) ==
    sha256_hex(<<le_bytes_u64(b.index), le_bytes_i64(b.timestamp)>>
               \o b.previous_hash
               \o b.merkle_root
               \o <<le_bytes_u64(b.union_strength)>>)

\* mutant: the link to the previous block's hash is not checked
PolisBlock_verify_unlinked(b, previous_block, checks) ==
    IF b.hash # calculate_hash(b) THEN "false"
    ELSE IF /\ previous_block # <<>>
            /\ checks
            /\ u64_add_overflows(previous_block[1].index, u64_from(1)) THEN "panic"
    ELSE IF /\ previous_block # <<>>
            /\ b.index # u64_wrapping_add(previous_block[1].index, u64_from(1)) THEN "false"
    ELSE IF \E i \in DOMAIN b.actions : ~verify_zk_proof(b.actions[i]) THEN "false"
    ELSE "true"

\* PolisBlock::verify; "panic" is the overflow of prev.index + 1 under overflow checks
PolisBlock_verify(b, previous_block, checks) ==
    IF b.hash # calculate_hash(b) THEN "false"
    ELSE IF /\ previous_block # <<>>
            /\ b.previous_hash # previous_block[1].hash THEN "false"
    ELSE IF /\ previous_block # <<>>
            /\ checks
            /\ u64_add_overflows(previous_block[1].index, u64_from(1)) THEN "panic"
    ELSE IF /\ previous_block # <<>>
            /\ b.index # u64_wrapping_add(previous_block[1].index, u64_from(1)) THEN "false"
    ELSE IF \E i \in DOMAIN b.actions : ~verify_zk_proof(b.actions[i]) THEN "false"
    ELSE "true"

(***************************************************************************)
(* StanceShard: Merkle root                                                *)
(***************************************************************************)
\* one pass of `for chunk in hashes.chunks(2)`: every chunk, of two or of one, is hashed
merkle_next_level(hashes) ==
    [k \in 1..((Len(hashes) + 1) \div 2) |->
        IF 2 * k <= Len(hashes)
        THEN sha256_hex(hashes[2 * k - 1] \o hashes[2 * k])
        ELSE sha256_hex(hashes[2 * k - 1])]

RECURSIVE merkle_fold(_)
merkle_fold(hashes) ==
    IF Len(hashes) > 1 THEN merkle_fold(merkle_next_level(hashes)) ELSE hashes[1]

\* mutant: the leaves are folded at least once, also when there is a single one
calculate_merkle_root_rehashed(actions) ==
    IF actions = <<>> THEN zero_hash
    ELSE merkle_fold(merkle_next_level(
             [i \in DOMAIN actions |-> ImpactAction_hash(actions[i])]))

calculate_merkle_root(actions) ==
    IF actions = <<>> THEN zero_hash
    ELSE merkle_fold([i \in DOMAIN actions |-> ImpactAction_hash(actions[i])])

(***************************************************************************)
(* DecentralizedPoliticianState                                            *)
(***************************************************************************)
State_new ==
    [ blockchain |-> <<>>,
      treasury |-> u64_from(0),
      active_campaigns |-> <<>>,
      online_nodes_count |-> u64_from(0),
      total_union_strength |-> u64_from(0),
      total_capital_diverted |-> u64_from(0) ]

latest_block(st) ==
    IF st.blockchain = <<>> THEN <<>> ELSE <<st.blockchain[Len(st.blockchain)]>>

height(st) == u64_from(Len(st.blockchain))

\* `for action in &block.actions { total += action.value_diverted }` from position i on;
\* under overflow checks the loop stops at the first addition that overflows
RECURSIVE add_values(_, _, _, _)
add_values(total, actions, i, checks) ==
    IF i > Len(actions) THEN [total |-> total, panicked |-> FALSE]
    ELSE IF checks /\ u64_add_overflows(total, actions[i].value_diverted)
         THEN [total |-> total, panicked |-> TRUE]
         ELSE add_values(u64_wrapping_add(total, actions[i].value_diverted),
                         actions, i + 1, checks)

State_apply_block(st, block, checks) ==
    IF checks /\ u64_add_overflows(st.total_union_strength, block.union_strength)
    THEN [state |-> st, result |-> "Panic"]
    ELSE LET st1 == [st EXCEPT !.total_union_strength =
                                   u64_wrapping_add(@, block.union_strength)]
             sum == add_values(st1.total_capital_diverted, block.actions, 1, checks)
             st2 == [st1 EXCEPT !.total_capital_diverted = sum.total]
         IN  IF sum.panicked
             THEN [state |-> st2, result |-> "Panic"]
             ELSE [state |-> [st2 EXCEPT !.blockchain = Append(@, block)],
                   result |-> "Ok"]

\* mutant: the strength total is updated before the block is verified
State_add_block_eager(st, block, checks) ==
    LET v == PolisBlock_verify(block, latest_block(st), checks)
        st1 == [st EXCEPT !.total_union_strength =
                              u64_wrapping_add(@, block.union_strength)]
    IN  IF v = "panic" THEN [state |-> st, result |-> "Panic"]
        ELSE IF v = "false" THEN [state |-> st1, result |-> "Block verification failed"]
        ELSE State_apply_block(st, block, checks)

State_add_block(st, block, checks) ==
    LET v == PolisBlock_verify(block, latest_block(st), checks)
    IN  IF v = "panic" THEN [state |-> st, result |-> "Panic"]
        ELSE IF v = "false" THEN [state |-> st, result |-> "Block verification failed"]
        ELSE State_apply_block(st, block, checks)

(***************************************************************************)
(* StanceShard                                                             *)
(***************************************************************************)
StanceShard_new(shard_id, ideology_range) ==
    [ shard_id |-> shard_id,
      ideology_range |-> ideology_range,
      state |-> State_new,
      pending_actions |-> <<>>,
      nodes |-> <<>> ]

\* mutant: an event whose action_id is already in the pool is dropped
add_pending_action_dedup(s, action) ==
    IF ~verify_zk_proof(action)
    THEN [shard |-> s, result |-> "Invalid ZK proof"]
    ELSE IF \E i \in DOMAIN s.pending_actions :
               s.pending_actions[i].action_id = action.action_id
    THEN [shard |-> s, result |-> "Ok"]
    ELSE [shard |-> [s EXCEPT !.pending_actions = Append(@, action)], result |-> "Ok"]

\* mutant: the pool takes an event without looking at its proof
add_pending_action_unverified(s, action) ==
    [shard |-> [s EXCEPT !.pending_actions = Append(@, action)], result |-> "Ok"]

add_pending_action(s, action) ==
    IF ~verify_zk_proof(action)
    THEN [shard |-> s, result |-> "Invalid ZK proof"]
    ELSE [shard |-> [s EXCEPT !.pending_actions = Append(@, action)], result |-> "Ok"]

\* the block produce_block builds from the pool; `now` is Utc::now().timestamp()
build_block(s, validator, now) ==
    LET previous_block == latest_block(s.state)
        b0 == [ index |-> height(s.state),
                timestamp |-> now,
                actions |-> s.pending_actions,
                previous_hash |-> IF previous_block = <<>> THEN zero_hash
                                  ELSE previous_block[1].hash,
                union_strength |-> u64_from(0),
                merkle_root |-> calculate_merkle_root(s.pending_actions),
                hash |-> <<>>,
                validator |-> validator ]
        b1 == [b0 EXCEPT !.union_strength = calculate_strength(b0)]
    IN  [b1 EXCEPT !.hash = calculate_hash(b1)]

\* mutant: no check for an empty pool
produce_block_unguarded(s, validator, now) ==
    [shard |-> [s EXCEPT !.pending_actions = <<>>],
     result |-> "Ok",
     block |-> <<build_block(s, validator, now)>>]

\* mutant: the pool is not cleared once the block is built
produce_block_keeps_pool(s, validator, now) ==
    IF s.pending_actions = <<>>
    THEN [shard |-> s, result |-> "No pending actions to include in block", block |-> <<>>]
    ELSE [shard |-> s,
          result |-> "Ok",
          block |-> <<build_block(s, validator, now)>>]

produce_block(s, validator, now) ==
    IF s.pending_actions = <<>>
    THEN [shard |-> s, result |-> "No pending actions to include in block", block |-> <<>>]
    ELSE [shard |-> [s EXCEPT !.pending_actions = <<>>],
          result |-> "Ok",
          block |-> <<build_block(s, validator, now)>>]

add_block(s, block, checks) ==
    LET r == State_add_block(s.state, block, checks)
    IN  [shard |-> [s EXCEPT !.state = r.state], result |-> r.result]

campaign_index(s, campaign_id) ==
    {i \in DOMAIN s.state.active_campaigns :
        /\ s.state.active_campaigns[i].campaign_id = campaign_id
        /\ \A j \in 1..(i - 1) : s.state.active_campaigns[j].campaign_id # campaign_id}

get_campaign_state(s, campaign_id) ==
    IF campaign_index(s, campaign_id) = {} THEN <<>>
    ELSE <<s.state.active_campaigns[CHOOSE i \in campaign_index(s, campaign_id) : TRUE]>>

\* mutant: the goal counts as reached only once it is exceeded
is_goal_exceeded(c) ==
    /\ u64_ge(c.verified_participants_count, c.goal_participants)
    /\ c.verified_participants_count # c.goal_participants

is_goal_reached(c) == u64_ge(c.verified_participants_count, c.goal_participants)

update_campaign_state(s, campaign_id, action, now, checks) ==
    IF campaign_index(s, campaign_id) = {} THEN [shard |-> s, result |-> "Ok"]
    ELSE
      LET i == CHOOSE k \in campaign_index(s, campaign_id) : TRUE
          c0 == s.state.active_campaigns[i]
          c1 == [c0 EXCEPT !.verified_participants_count = u64_wrapping_add(@, u64_from(1))]
          c2 == [c1 EXCEPT !.total_capital_diverted =
                               u64_wrapping_add(@, action.value_diverted),
                           !.last_updated = now]
          c3 == IF is_goal_reached(c2) /\ c2.status = "Active"
                THEN [c2 EXCEPT !.status = "Achieved"] ELSE c2
      IN  IF checks /\ u64_add_overflows(c0.verified_participants_count, u64_from(1))
          THEN [shard |-> s, result |-> "Panic"]
          ELSE IF checks /\ u64_add_overflows(c1.total_capital_diverted, action.value_diverted)
          THEN [shard |-> [s EXCEPT !.state.active_campaigns[i] = c1], result |-> "Panic"]
          ELSE [shard |-> [s EXCEPT !.state.active_campaigns[i] = c3], result |-> "Ok"]

\* mutant: no check for a campaign of the same id
create_campaign_unchecked(s, campaign_id, goal_participants, duration_blocks, now, checks) ==
    IF checks /\ u64_add_overflows(height(s.state), duration_blocks)
    THEN [shard |-> s, result |-> "Panic"]
    ELSE [shard |-> [s EXCEPT !.state.active_campaigns = Append(@,
                        [ campaign_id |-> campaign_id,
                          verified_participants_count |-> u64_from(0),
                          goal_participants |-> goal_participants,
                          total_capital_diverted |-> u64_from(0),
                          end_block |-> u64_wrapping_add(height(s.state), duration_blocks),
                          action_proofs_root |-> <<>>,
                          status |-> "Active",
                          created_at |-> now,
                          last_updated |-> now ])],
          result |-> "Ok"]

create_campaign(s, campaign_id, goal_participants, duration_blocks, now, checks) ==
    IF \E i \in DOMAIN s.state.active_campaigns :
           s.state.active_campaigns[i].campaign_id = campaign_id
    THEN [shard |-> s, result |-> "Campaign already exists"]
    ELSE IF checks /\ u64_add_overflows(height(s.state), duration_blocks)
    THEN [shard |-> s, result |-> "Panic"]
    ELSE [shard |-> [s EXCEPT !.state.active_campaigns = Append(@,
                        [ campaign_id |-> campaign_id,
                          verified_participants_count |-> u64_from(0),
                          goal_participants |-> goal_participants,
                          total_capital_diverted |-> u64_from(0),
                          end_block |-> u64_wrapping_add(height(s.state), duration_blocks),
                          action_proofs_root |-> <<>>,
                          status |-> "Active",
                          created_at |-> now,
                          last_updated |-> now ])],
          result |-> "Ok"]

(***************************************************************************)
(* f32, IdeologyRange                                                      *)
(***************************************************************************)
f32_NaN == 999999

\* `a <= b` on f32 (`b >= a`): false as soon as one side is NaN
f32_le(a, b) == a # f32_NaN /\ b # f32_NaN /\ a <= b

\* mutant: the upper bound of the social axis is exclusive
IdeologyRange_contains_open(r, vector) ==
    /\ f32_le(r.economic_min, vector[1])
    /\ f32_le(vector[1], r.economic_max)
    /\ f32_le(r.social_min, vector[2])
    /\ f32_le(vector[2], r.social_max) /\ vector[2] # r.social_max
    /\ f32_le(r.diplomatic_min, vector[3])
    /\ f32_le(vector[3], r.diplomatic_max)

IdeologyRange_contains(r, vector) ==
    /\ f32_le(r.economic_min, vector[1])
    /\ f32_le(vector[1], r.economic_max)
    /\ f32_le(r.social_min, vector[2])
    /\ f32_le(vector[2], r.social_max)
    /\ f32_le(r.diplomatic_min, vector[3])
    /\ f32_le(vector[3], r.diplomatic_max)

(***************************************************************************)
(* StanceShard: membership registry and statistics                         *)
(***************************************************************************)
\* HashMap::insert
HashMap_insert(m, k, v) == [x \in DOMAIN m \cup {k} |-> IF x = k THEN v ELSE m[x]]

\* mutant: the heartbeat height of an entry is never set beyond the empty chain's
update_node_status_genesis(s, node_id, is_online, now) ==
    LET entry == IF node_id \in DOMAIN s.nodes
                 THEN [s.nodes[node_id] EXCEPT !.is_online = is_online,
                                               !.last_heartbeat_block = u64_from(0),
                                               !.last_updated = now]
                 ELSE [ node_id |-> node_id,
                        is_online |-> is_online,
                        last_heartbeat_block |-> u64_from(0),
                        active_shards |-> <<s.shard_id>>,
                        reputation_score |-> u64_from(0),
                        last_updated |-> now ]
        nodes == HashMap_insert(s.nodes, node_id, entry)
    IN  [s EXCEPT !.nodes = nodes,
                  !.state.online_nodes_count =
                      u64_from(Cardinality({k \in DOMAIN nodes : nodes[k].is_online}))]

\* mutant: the online count is stepped instead of recounted
update_node_status_stepped(s, node_id, is_online, now) ==
    LET entry == IF node_id \in DOMAIN s.nodes
                 THEN [s.nodes[node_id] EXCEPT !.is_online = is_online,
                                               !.last_heartbeat_block = height(s.state),
                                               !.last_updated = now]
                 ELSE [ node_id |-> node_id,
                        is_online |-> is_online,
                        last_heartbeat_block |-> height(s.state),
                        active_shards |-> <<s.shard_id>>,
                        reputation_score |-> u64_from(0),
                        last_updated |-> now ]
    IN  [s EXCEPT !.nodes = HashMap_insert(s.nodes, node_id, entry),
                  !.state.online_nodes_count =
                      IF is_online THEN u64_wrapping_add(@, u64_from(1)) ELSE @]

update_node_status(s, node_id, is_online, now) ==
    LET entry == IF node_id \in DOMAIN s.nodes
                 THEN [s.nodes[node_id] EXCEPT !.is_online = is_online,
                                               !.last_heartbeat_block = height(s.state),
                                               !.last_updated = now]
                 ELSE [ node_id |-> node_id,
                        is_online |-> is_online,
                        last_heartbeat_block |-> height(s.state),
                        active_shards |-> <<s.shard_id>>,
                        reputation_score |-> u64_from(0),
                        last_updated |-> now ]
        nodes == HashMap_insert(s.nodes, node_id, entry)
    IN  [s EXCEPT !.nodes = nodes,
                  !.state.online_nodes_count =
                      u64_from(Cardinality({k \in DOMAIN nodes : nodes[k].is_online}))]

get_stats(s) ==
    [ shard_id |-> s.shard_id,
      block_height |-> height(s.state),
      online_nodes |-> s.state.online_nodes_count,
      total_union_strength |-> s.state.total_union_strength,
      total_capital_diverted |-> s.state.total_capital_diverted,
      active_campaigns_count |-> u64_from(Len(s.state.active_campaigns)),
      pending_actions_count |-> u64_from(Len(s.pending_actions)) ]

(***************************************************************************)
(* PolisProtocol                                                           *)
(***************************************************************************)
\* the coordinator before any shard is registered
NoProtocol ==
    [ shards |-> <<>>,
      order |-> <<>>,          \* the order in which `shards.values()` iterates
      user_routes |-> <<>>,
      firebase_users |-> <<>> ]

Range(q) == {q[i] : i \in DOMAIN q}

\* `order` is the iteration order of the map once the shard is in it
register_shard(p, s, order) ==
    LET ids == DOMAIN p.shards \cup {s.shard_id}
        registered(k) == k \in ids
    IN  [p EXCEPT !.shards = HashMap_insert(@, s.shard_id, s),
                  !.order = SelectSeq(order, registered)]

Region(emin, emax, smin, smax) ==
    [ economic_min |-> emin, economic_max |-> emax,
      social_min |-> smin, social_max |-> smax,
      diplomatic_min |-> -100, diplomatic_max |-> 100 ]

PolisProtocol_new(order) ==
    LET p1 == register_shard(NoProtocol,
                  StanceShard_new("progressive-left", Region(-100, -20, 20, 100)), order)
        p2 == register_shard(p1,
                  StanceShard_new("conservative-right", Region(20, 100, -100, -20)), order)
        p3 == register_shard(p2,
                  StanceShard_new("centrist-moderate", Region(-40, 40, -40, 40)), order)
        p4 == register_shard(p3,
                  StanceShard_new("traditional-left", Region(-100, -20, -100, 20)), order)
    IN  register_shard(p4,
                  StanceShard_new("libertarian-right", Region(20, 100, 20, 100)), order)

route_user(p, ideology_vector) ==
    LET hit(k) == IdeologyRange_contains(p.shards[k].ideology_range, ideology_vector)
        hits == SelectSeq(p.order, hit)
    IN  [i \in DOMAIN hits |-> p.shards[hits[i]].shard_id]

\* mutant: the event is handed to every shard
submit_action_broadcast(p, shard_id, action) ==
    IF shard_id \notin DOMAIN p.shards
    THEN [protocol |-> p, result |-> "Shard not found"]
    ELSE [protocol |-> [p EXCEPT !.shards = [k \in DOMAIN p.shards |->
                                     add_pending_action(p.shards[k], action).shard]],
          result |-> add_pending_action(p.shards[shard_id], action).result]

submit_action(p, shard_id, action) ==
    IF shard_id \notin DOMAIN p.shards
    THEN [protocol |-> p, result |-> "Shard not found"]
    ELSE LET r == add_pending_action(p.shards[shard_id], action)
         IN  [protocol |-> [p EXCEPT !.shards[shard_id] = r.shard], result |-> r.result]

\* the four running sums of get_global_stats over the shards from position i on
RECURSIVE sum_stats(_, _, _, _)
sum_stats(p, i, acc, checks) ==
    IF i > Len(p.order) THEN [stats |-> acc, result |-> "Ok"]
    ELSE LET stats == get_stats(p.shards[p.order[i]])
         IN  IF checks /\ (\/ u64_add_overflows(acc.total_online_nodes, stats.online_nodes)
                           \/ u64_add_overflows(acc.total_union_strength,
                                                stats.total_union_strength)
                           \/ u64_add_overflows(acc.total_capital_diverted,
                                                stats.total_capital_diverted)
                           \/ u64_add_overflows(acc.total_active_campaigns,
                                                stats.active_campaigns_count))
             THEN [stats |-> acc, result |-> "Panic"]
             ELSE sum_stats(p, i + 1,
                    [acc EXCEPT
                       !.total_online_nodes = u64_wrapping_add(@, stats.online_nodes),
                       !.total_union_strength =
                           u64_wrapping_add(@, stats.total_union_strength),
                       !.total_capital_diverted =
                           u64_wrapping_add(@, stats.total_capital_diverted),
                       !.total_active_campaigns =
                           u64_wrapping_add(@, stats.active_campaigns_count)],
                    checks)

get_global_stats(p, checks) ==
    sum_stats(p, 1,
              [ total_shards |-> u64_from(Cardinality(DOMAIN p.shards)),
                total_online_nodes |-> u64_from(0),
                total_union_strength |-> u64_from(0),
                total_capital_diverted |-> u64_from(0),
                total_active_campaigns |-> u64_from(0) ],
              checks)

\* the events of a chain in the order `for block .. for action ..` visits them
RECURSIVE chain_actions(_)
chain_actions(blocks) ==
    IF blocks = <<>> THEN <<>>
    ELSE chain_actions(SubSeq(blocks, 1, Len(blocks) - 1)) \o blocks[Len(blocks)].actions

\* the events `action.user_did == user_did` lets through, over the named shards that
\* exist, from position i of shard_ids on
RECURSIVE matching_actions(_, _, _, _)
matching_actions(p, user_did, shard_ids, i) ==
    IF i > Len(shard_ids) THEN <<>>
    ELSE IF shard_ids[i] \notin DOMAIN p.shards
    THEN matching_actions(p, user_did, shard_ids, i + 1)
    ELSE LET by_user(a) == a.user_did = user_did
         IN  SelectSeq(chain_actions(p.shards[shard_ids[i]].state.blockchain), by_user)
                \o matching_actions(p, user_did, shard_ids, i + 1)

i64_max(a, b) == IF a >= b THEN a ELSE b
i64_min(a, b) == IF a <= b THEN a ELSE b

SecondsPerDay == 86400

\* the accumulators of get_user_stats before the loop; earliest_action_timestamp is
\* <<>> while it is still i64::MAX (every timestamp of the model is below i64::MAX)
no_user_stats ==
    [ campaigns_joined |-> u64_from(0),
      total_actions |-> u64_from(0),
      total_diverted |-> u64_from(0),
      last_action_timestamp |-> 0,
      earliest_action_timestamp |-> <<>> ]

\* the body of the loop for the matching events from position i on
RECURSIVE sum_user_stats(_, _, _, _)
sum_user_stats(matched, i, acc, checks) ==
    IF i > Len(matched) THEN [stats |-> acc, result |-> "Ok"]
    ELSE IF checks /\ u64_add_overflows(acc.total_diverted, matched[i].value_diverted)
    THEN [stats |-> acc, result |-> "Panic"]
    ELSE sum_user_stats(matched, i + 1,
            [ campaigns_joined |-> u64_wrapping_add(acc.campaigns_joined, u64_from(1)),
              total_actions |-> u64_wrapping_add(acc.total_actions, u64_from(1)),
              total_diverted |->
                  u64_wrapping_add(acc.total_diverted, matched[i].value_diverted),
              last_action_timestamp |->
                  i64_max(acc.last_action_timestamp, matched[i].timestamp),
              earliest_action_timestamp |->
                  IF acc.earliest_action_timestamp = <<>> THEN <<matched[i].timestamp>>
                  ELSE <<i64_min(acc.earliest_action_timestamp[1], matched[i].timestamp)>> ],
            checks)

streak_days(acc) ==
    IF acc.earliest_action_timestamp = <<>> THEN u64_from(0)
    ELSE u64_from((acc.last_action_timestamp - acc.earliest_action_timestamp[1])
                     \div SecondsPerDay)

UserStats(summed) ==
    [ stats |-> [ campaigns_joined |-> summed.stats.campaigns_joined,
                  streak_days |-> streak_days(summed.stats),
                  total_diverted |-> summed.stats.total_diverted,
                  total_actions |-> summed.stats.total_actions ],
      result |-> summed.result ]

get_user_stats(p, user_did, shard_ids, checks) ==
    UserStats(sum_user_stats(matching_actions(p, user_did, shard_ids, 1), 1,
                             no_user_stats, checks))

\* the sums of get_blockchain_stats over the shards from position i on; the three
\* counters add lengths of vectors held in memory, far below 2^64
RECURSIVE sum_chain_stats(_, _, _)
sum_chain_stats(p, i, acc) ==
    IF i > Len(p.order) THEN acc
    ELSE sum_chain_stats(p, i + 1,
            [ total_blocks |-> acc.total_blocks + Len(p.shards[p.order[i]].state.blockchain),
              total_pending_actions |->
                  acc.total_pending_actions + Len(p.shards[p.order[i]].pending_actions),
              latest_block_timestamp |->
                  IF p.shards[p.order[i]].state.blockchain = <<>> THEN acc.latest_block_timestamp
                  ELSE i64_max(acc.latest_block_timestamp,
                               latest_block(p.shards[p.order[i]].state)[1].timestamp),
              total_transactions |->
                  acc.total_transactions
                     + Len(chain_actions(p.shards[p.order[i]].state.blockchain)) ])

TpsWindow == 10

\* mutant: the window is one second
transactions_per_second_last_second(summed, current_time) ==
    IF summed.latest_block_timestamp > 0
    THEN IF i64_max(current_time - summed.latest_block_timestamp, 1) <= 1
         THEN summed.total_transactions
                 \div i64_max(current_time - summed.latest_block_timestamp, 1)
         ELSE 0
    ELSE 0

\* `(total_transactions as f64 / time_diff as f64) as u64`: the quotient rounded
\* towards zero, exact for the counts below 2^53
transactions_per_second(summed, current_time) ==
    IF summed.latest_block_timestamp > 0
    THEN IF i64_max(current_time - summed.latest_block_timestamp, 1) <= TpsWindow
         THEN summed.total_transactions
                 \div i64_max(current_time - summed.latest_block_timestamp, 1)
         ELSE 0
    ELSE 0

BlockchainStats(p, summed, current_time) ==
    [ total_blocks |-> u64_from(summed.total_blocks),
      total_shards |-> u64_from(Cardinality(DOMAIN p.shards)),
      total_pending_actions |-> u64_from(summed.total_pending_actions),
      latest_block_timestamp |-> summed.latest_block_timestamp,
      transactions_per_second |-> u64_from(transactions_per_second(summed, current_time)) ]

get_blockchain_stats(p, current_time) ==
    BlockchainStats(p,
        sum_chain_stats(p, 1, [ total_blocks |-> 0, total_pending_actions |-> 0,
                                latest_block_timestamp |-> 0, total_transactions |-> 0 ]),
        current_time)

did_prefix ==
    Chars(<<"d","i","d",":","p","o","l","i","s",":","f","i","r","e","b","a","s","e",":">>)

\* mutant: an identity that no region contains is put into the first shard
register_firebase_user_fallback(p, firebase_uid, display_name, coordinates, now) ==
    LET polis_did == did_prefix \o firebase_uid
        routed == route_user(p, coordinates)
        shard_ids == IF routed = <<>> THEN SubSeq(p.order, 1, 1) ELSE routed
        user == [ firebase_uid |-> firebase_uid,
                  polis_did |-> polis_did,
                  display_name |-> display_name,
                  coordinates |-> coordinates,
                  is_online |-> TRUE,
                  last_activity |-> now,
                  total_actions |-> u64_from(0) ]
    IN  [protocol |->
            [p EXCEPT !.shards = [k \in DOMAIN p.shards |->
                                     IF k \in Range(shard_ids)
                                     THEN update_node_status(p.shards[k], polis_did, TRUE, now)
                                     ELSE p.shards[k]],
                      !.firebase_users = HashMap_insert(@, firebase_uid, user),
                      !.user_routes = HashMap_insert(@, polis_did, shard_ids)],
         result |-> "Ok",
         polis_did |-> polis_did]

register_firebase_user(p, firebase_uid, display_name, coordinates, now) ==
    LET polis_did == did_prefix \o firebase_uid
        shard_ids == route_user(p, coordinates)
        user == [ firebase_uid |-> firebase_uid,
                  polis_did |-> polis_did,
                  display_name |-> display_name,
                  coordinates |-> coordinates,
                  is_online |-> TRUE,
                  last_activity |-> now,
                  total_actions |-> u64_from(0) ]
    IN  [protocol |->
            [p EXCEPT !.shards = [k \in DOMAIN p.shards |->
                                     IF k \in Range(shard_ids)
                                     THEN update_node_status(p.shards[k], polis_did, TRUE, now)
                                     ELSE p.shards[k]],
                      !.firebase_users = HashMap_insert(@, firebase_uid, user),
                      !.user_routes = HashMap_insert(@, polis_did, shard_ids)],
         result |-> "Ok",
         polis_did |-> polis_did]

\* `if let Some(shard_ids) = self.user_routes.get(..)`: the shards update_user_activity
\* writes to
activity_shards(p, polis_did) ==
    IF polis_did \in DOMAIN p.user_routes THEN Range(p.user_routes[polis_did]) ELSE {}

update_user_activity(p, firebase_uid, is_online, now) ==
    IF firebase_uid \notin DOMAIN p.firebase_users
    THEN [protocol |-> p, result |-> "User not found"]
    ELSE [protocol |->
             [p EXCEPT !.firebase_users[firebase_uid].is_online = is_online,
                       !.firebase_users[firebase_uid].last_activity = now,
                       !.shards = [k \in DOMAIN p.shards |->
                           IF k \in activity_shards(p, p.firebase_users[firebase_uid].polis_did)
                           THEN update_node_status(p.shards[k],
                                    p.firebase_users[firebase_uid].polis_did, is_online, now)
                           ELSE p.shards[k]]],
          result |-> "Ok"]

UserNotFound == "User not found"

DefaultGoal == 1000
DefaultDuration == 10000
AutoBlockThreshold == 1

\* `if shard.get_campaign_state(&campaign_id).is_none() { create_campaign(..) }`:
\* an Err of create_campaign is printed and otherwise ignored
ensure_campaign(s, campaign_id, now, checks) ==
    IF get_campaign_state(s, campaign_id) = <<>>
    THEN create_campaign(s, campaign_id, u64_from(DefaultGoal), u64_from(DefaultDuration),
                         now, checks)
    ELSE [shard |-> s, result |-> "Ok"]

\* the next statements of the loop body, each given the outcome r of those before it
then_update_campaign_state(r, campaign_id, action, now, checks) ==
    IF r.result = "Panic" THEN r
    ELSE update_campaign_state(r.shard, campaign_id, action, now, checks)

then_add_pending_action(r, action) ==
    IF r.result = "Panic" THEN r
    ELSE add_pending_action(r.shard, action)

\* `match shard.produce_block(..) { Ok(block) => shard.add_block(block)?, Err(e) => .. }`
then_add_block(produced, checks) ==
    IF produced.result # "Ok" THEN [shard |-> produced.shard, result |-> "Ok"]
    ELSE add_block(produced.shard, produced.block[1], checks)

\* mutant: a block is produced only once two events are pending
then_produce_block_batched(r, polis_did, now, checks) ==
    IF r.result # "Ok" THEN r
    ELSE IF Len(r.shard.pending_actions) < AutoBlockThreshold + 1 THEN r
    ELSE then_add_block(produce_block(r.shard, polis_did, now), checks)

then_produce_block(r, polis_did, now, checks) ==
    IF r.result # "Ok" THEN r
    ELSE IF Len(r.shard.pending_actions) < AutoBlockThreshold THEN r
    ELSE then_add_block(produce_block(r.shard, polis_did, now), checks)

\* the body of record_user_action's loop for one shard of the identity
record_in_shard(s, action, polis_did, now, checks) ==
    then_produce_block(
        then_add_pending_action(
            then_update_campaign_state(
                ensure_campaign(s, action.target_entity, now, checks),
                action.target_entity, action, now, checks),
            action),
        polis_did, now, checks)

\* the loop of record_user_action from position i of the identity's shard list on;
\* `?` returns at the first error, with what was done so far left in place
RECURSIVE record_in_shards(_, _, _, _, _, _, _)
RECURSIVE after_shard(_, _, _, _, _, _, _, _)
record_in_shards(p, shard_ids, i, action, polis_did, now, checks) ==
    IF i > Len(shard_ids) THEN [protocol |-> p, result |-> "Ok"]
    ELSE IF shard_ids[i] \notin DOMAIN p.shards
    THEN record_in_shards(p, shard_ids, i + 1, action, polis_did, now, checks)
    ELSE after_shard(p, shard_ids, i,
                     record_in_shard(p.shards[shard_ids[i]], action, polis_did, now, checks),
                     action, polis_did, now, checks)

\* r is the outcome of the loop body for the shard at position i
after_shard(p, shard_ids, i, r, action, polis_did, now, checks) ==
    IF r.result # "Ok"
    THEN [protocol |-> [p EXCEPT !.shards[shard_ids[i]] = r.shard], result |-> r.result]
    ELSE record_in_shards([p EXCEPT !.shards[shard_ids[i]] = r.shard], shard_ids, i + 1,
                          action, polis_did, now, checks)

\* `user.total_actions += 1; Ok(())` once the loop has ended without error
count_action(looped, firebase_uid, checks) ==
    IF looped.result # "Ok" THEN looped
    ELSE IF checks /\ u64_add_overflows(
                          looped.protocol.firebase_users[firebase_uid].total_actions,
                          u64_from(1))
    THEN [protocol |-> looped.protocol, result |-> "Panic"]
    ELSE [protocol |-> [looped.protocol EXCEPT
                           !.firebase_users[firebase_uid].total_actions =
                               u64_wrapping_add(@, u64_from(1))],
          result |-> "Ok"]

\* the event record_user_action builds
recorded_action(polis_did, firebase_uid, action_type, target, value_cents, now, action_id) ==
    [ user_did |-> polis_did,
      action_type |-> action_type,
      target_entity |-> target,
      value_diverted |-> value_cents,
      zk_proof |-> firebase_prefix \o firebase_uid,
      timestamp |-> now,
      action_id |-> action_id ]

\* mutant: an identity that was never registered is let through
record_user_action_anonymous(p, firebase_uid, action_type, target, value_cents, now, action_id, checks) ==
    IF firebase_uid \notin DOMAIN p.firebase_users
    THEN [protocol |-> p, result |-> "Ok"]
    ELSE IF p.firebase_users[firebase_uid].polis_did \notin DOMAIN p.user_routes
    THEN count_action([protocol |-> p, result |-> "Ok"], firebase_uid, checks)
    ELSE count_action(
             record_in_shards(p,
                 p.user_routes[p.firebase_users[firebase_uid].polis_did], 1,
                 recorded_action(p.firebase_users[firebase_uid].polis_did, firebase_uid,
                                 action_type, target, value_cents, now, action_id),
                 p.firebase_users[firebase_uid].polis_did, now, checks),
             firebase_uid, checks)

record_user_action(p, firebase_uid, action_type, target, value_cents, now, action_id, checks) ==
    IF firebase_uid \notin DOMAIN p.firebase_users
    THEN [protocol |-> p, result |-> "User not found"]
    ELSE IF p.firebase_users[firebase_uid].polis_did \notin DOMAIN p.user_routes
    THEN count_action([protocol |-> p, result |-> "Ok"], firebase_uid, checks)
    ELSE count_action(
             record_in_shards(p,
                 p.user_routes[p.firebase_users[firebase_uid].polis_did], 1,
                 recorded_action(p.firebase_users[firebase_uid].polis_did, firebase_uid,
                                 action_type, target, value_cents, now, action_id),
                 p.firebase_users[firebase_uid].polis_did, now, checks),
             firebase_uid, checks)

(***************************************************************************)
(* Inputs of the calls                                                     *)
(***************************************************************************)
did_u == Chars(<<"u">>)
target_T == Chars(<<"T">>)
validator_V == Chars(<<"V">>)
junk_hash == Chars(<<"a">>)
Times == {1}

proof_firebase == firebase_prefix \o Chars(<<"u">>)
proof_long == [i \in 1..MinProofLen |-> Ch("p")]
proof_short == Chars(<<"s","h","o","r","t">>)

Action(action_type, value, proof, id) ==
    [ user_did |-> did_u,
      action_type |-> action_type,
      target_entity |-> target_T,
      value_diverted |-> value,
      zk_proof |-> proof,
      timestamp |-> 1,
      action_id |-> id ]

A_ok == Action("Boycott", u64_from(1), proof_firebase, "a1")
A_big == Action("Vote", u64_MAX, proof_long, "a1")
A_short == Action("Boycott", u64_from(1), proof_short, "a2")
A_empty == Action("Boycott", u64_from(1), <<>>, "a3")

\* what the callers of the chain-centred ledger submit, and of the pool-centred one
LedgerActions == {A_ok, A_short, A_empty}
PoolActions == {A_ok, A_big, A_short, A_empty}

rehash(b) == [b EXCEPT !.hash = calculate_hash(b)]

\* blocks a caller builds itself: the well-formed successor of the tail holding A_ok,
\* or that block with one field set otherwise (and the hash recomputed, or not)
ForgedKinds ==
    {"well_formed", "index", "previous_hash", "zero_previous_hash", "union_strength",
     "invalid_proof", "big_value", "stale_hash"}

ForgedBlock(s, kind) ==
    LET wf == build_block([s EXCEPT !.pending_actions = <<A_ok>>], validator_V, 1)
    IN  CASE kind = "well_formed" -> wf
          [] kind = "index" ->
                rehash([wf EXCEPT !.index = u64_wrapping_add(@, u64_from(1))])
          [] kind = "previous_hash" -> rehash([wf EXCEPT !.previous_hash = junk_hash])
          [] kind = "zero_previous_hash" -> rehash([wf EXCEPT !.previous_hash = zero_hash])
          [] kind = "union_strength" -> rehash([wf EXCEPT !.union_strength = u64_MAX])
          [] kind = "invalid_proof" ->
                rehash([wf EXCEPT !.actions = <<A_short>>,
                                  !.merkle_root = calculate_merkle_root(<<A_short>>)])
          [] kind = "big_value" ->
                rehash([wf EXCEPT !.actions = <<A_big>>,
                                  !.merkle_root = calculate_merkle_root(<<A_big>>)])
          [] kind = "stale_hash" -> [wf EXCEPT !.union_strength = u64_MAX]

\* the block the caller holds when its last call was a successful produce_block
ProducedBlock ==
    IF last.op = "produce_block" /\ last.result = "Ok" THEN {last.block[1]} ELSE {}


default_range ==
    [ economic_min |-> -100, economic_max |-> 100,
      social_min |-> -100, social_max |-> 100,
      diplomatic_min |-> -100, diplomatic_max |-> 100 ]

NoCall == [fn |-> "none", arg |-> <<>>, out |-> <<>>]

Call(op, result, action, block) ==
    [op |-> op, result |-> result, action |-> action, block |-> block]

(***************************************************************************)
(* The ledger of one shard, driven by its public operations                *)
(***************************************************************************)
Init ==
    /\ shard = StanceShard_new(Chars(<<"s">>), default_range)
    /\ last = Call("new", "Ok", <<>>, <<>>)
    /\ overflow_checks \in BOOLEAN
    /\ call = NoCall
    /\ protocol = NoProtocol
    /\ server = NoServer

AddPendingAction(a) ==
    /\ last.result # "Panic"
    /\ verify_zk_proof(a) => Len(shard.pending_actions) < MaxPending
    /\ LET r == add_pending_action(shard, a)
       IN  /\ shard' = r.shard
           /\ last' = Call("add_pending_action", r.result, <<a>>, <<>>)
    /\ UNCHANGED <<overflow_checks, call, protocol, server>>

ProduceBlock ==
    /\ last.result # "Panic"
    /\ \E now \in Times :
         LET r == produce_block(shard, validator_V, now)
         IN  /\ shard' = r.shard
             /\ last' = Call("produce_block", r.result, <<>>, r.block)
    /\ UNCHANGED <<overflow_checks, call, protocol, server>>

AddBlock(b) ==
    /\ last.result # "Panic"
    /\ LET r == add_block(shard, b, overflow_checks)
       IN  /\ r.result = "Ok" => Len(shard.state.blockchain) < MaxChain
           /\ shard' = r.shard
           /\ last' = Call("add_block", r.result, <<>>, <<b>>)
    /\ UNCHANGED <<overflow_checks, call, protocol, server>>

CreateCampaign ==
    /\ last.result # "Panic"
    /\ \E now \in Times :
         LET r == create_campaign(shard, target_T, u64_from(1), u64_from(1), now,
                                  overflow_checks)
         IN  /\ shard' = r.shard
             /\ last' = Call("create_campaign", r.result, <<>>, <<>>)
    /\ UNCHANGED <<overflow_checks, call, protocol, server>>

Next ==
    \/ \E a \in LedgerActions : AddPendingAction(a)
    \/ ProduceBlock
    \/ \E kind \in ForgedKinds : AddBlock(ForgedBlock(shard, kind))
    \/ \E b \in ProducedBlock : AddBlock(b)
    \/ CreateCampaign

Spec == Init /\ [][Next]_vars

(***************************************************************************)
(* The same shard with the pending pool in the centre: every kind of       *)
(* event is submitted, and only blocks built by produce_block are appended *)
(***************************************************************************)
MaxSealed == 1

AddProducedBlock ==
    /\ last.result # "Panic"
    /\ \E b \in ProducedBlock :
         LET r == add_block(shard, b, overflow_checks)
         IN  /\ r.result = "Ok" => Len(shard.state.blockchain) < MaxSealed
             /\ shard' = r.shard
             /\ last' = Call("add_block", r.result, <<>>, <<b>>)
    /\ UNCHANGED <<overflow_checks, call, protocol, server>>

NextPool ==
    \/ \E a \in PoolActions : AddPendingAction(a)
    \/ ProduceBlock
    \/ AddProducedBlock

SpecPool == Init /\ [][NextPool]_vars

(***************************************************************************)
(* The pure functions, each applied to inputs drawn from small sets        *)
(***************************************************************************)
MaxEvents == 3

A_rally == Action("Rally", u64_from(2), proof_long, "a4")
A_ok_again == Action("Boycott", u64_from(1), proof_long, "a5")

\* three events with three content hashes, and a fourth that shares A_ok's
Events == {A_ok, A_big, A_rally, A_ok_again}

RECURSIVE SeqsUpTo(_, _)
SeqsUpTo(S, n) ==
    IF n = 0 THEN {<<>>}
    ELSE LET shorter == SeqsUpTo(S, n - 1)
         IN  shorter \cup {Append(q, x) : q \in shorter, x \in S}

filler(n) == [i \in 1..n |-> Ch("p")]

ProofTokens ==
    { <<>>,
      proof_short,
      proof_firebase,
      firebase_prefix,
      SubSeq(firebase_prefix, 1, Len(firebase_prefix) - 1),
      Chars(<<"x">>) \o firebase_prefix,
      SubSeq(firebase_prefix, 1, Len(firebase_prefix) - 1) \o filler(MinProofLen),
      filler(MinProofLen - 1),
      filler(MinProofLen),
      filler(MinProofLen + 1) }

\* blocks that pass verify, each with the block it was verified against
genesis_shard == StanceShard_new(Chars(<<"s">>), default_range)

VerifiedBlocks ==
    LET g == build_block([genesis_shard EXCEPT !.pending_actions = <<A_ok, A_big>>],
                         validator_V, 1)
        s1 == [genesis_shard EXCEPT !.state.blockchain = <<g>>,
                                    !.pending_actions = <<A_rally>>]
    IN  { [block |-> g, previous |-> <<>>],
          [block |-> build_block(s1, validator_V, 2), previous |-> <<g>>] }

BlockFields ==
    {"index", "timestamp", "actions", "previous_hash", "union_strength",
     "merkle_root", "hash", "validator"}

FieldValues(f) ==
    CASE f = "index" -> {u64_from(0), u64_from(1), u64_from(2), u64_MAX}
      [] f = "timestamp" -> {1, 2, 3}
      [] f = "actions" -> {<<>>, <<A_ok>>, <<A_ok, A_big>>, <<A_big, A_ok>>, <<A_rally>>,
                           <<A_ok_again, A_big>>, <<A_short>>, <<A_rally, A_empty>>}
      [] f = "previous_hash" -> {<<>>, zero_hash, junk_hash,
                                 ImpactAction_hash(A_ok), zero_hash \o junk_hash}
      [] f = "union_strength" -> {u64_from(0), u64_from(1), u64_from(2), u64_MAX}
      [] f = "merkle_root" -> {<<>>, zero_hash, junk_hash, calculate_merkle_root(<<A_ok>>),
                               calculate_merkle_root(<<A_big, A_ok>>)}
      [] f = "hash" -> {<<>>, zero_hash, junk_hash, ImpactAction_hash(A_ok)}
      [] f = "validator" -> {validator_V, Chars(<<"W">>), <<>>}

InitPure ==
    /\ shard = genesis_shard
    /\ last = Call("new", "Ok", <<>>, <<>>)
    /\ overflow_checks = FALSE
    /\ call = NoCall
    /\ protocol = NoProtocol
    /\ server = NoServer

CallMerkleRoot ==
    /\ \E events \in SeqsUpTo(Events, MaxEvents) :
         call' = [fn |-> "calculate_merkle_root", arg |-> events,
                  out |-> calculate_merkle_root(events)]
    /\ UNCHANGED <<shard, last, overflow_checks, protocol, server>>

CallVerifyZkProof ==
    /\ \E token \in ProofTokens :
         LET a == [A_ok EXCEPT !.zk_proof = token]
         IN  call' = [fn |-> "verify_zk_proof", arg |-> a, out |-> verify_zk_proof(a)]
    /\ UNCHANGED <<shard, last, overflow_checks, protocol, server>>

\* verify of a block that passed, after one of its fields is given another value
CallVerifyTampered ==
    /\ \E vb \in VerifiedBlocks, f \in BlockFields :
         \E v \in FieldValues(f) :
            /\ v # vb.block[f]
            /\ LET m == [vb.block EXCEPT ![f] = v]
               IN  call' = [fn |-> "verify",
                            arg |-> [original |-> vb.block, previous |-> vb.previous,
                                     field |-> f, block |-> m],
                            out |-> [calculate_hash |-> calculate_hash(m),
                                     verify |-> PolisBlock_verify(m, vb.previous, FALSE)]]
    /\ UNCHANGED <<shard, last, overflow_checks, protocol, server>>

\* the hashes of two events: one of Events, and one of Events with another proof and id
CallHash ==
    /\ \E a \in Events, c \in Events, token \in {proof_long, proof_firebase, <<>>},
          id \in {"a1", "a9"} :
         LET b == [c EXCEPT !.zk_proof = token, !.action_id = id]
         IN  call' = [fn |-> "hash", arg |-> <<a, b>>,
                      out |-> <<ImpactAction_hash(a), ImpactAction_hash(b)>>]
    /\ UNCHANGED <<shard, last, overflow_checks, protocol, server>>

NextPure ==
    \/ CallMerkleRoot
    \/ CallVerifyZkProof
    \/ CallVerifyTampered
    \/ CallHash

SpecPure == InitPure /\ [][NextPure]_vars

(***************************************************************************)
(* route_user, applied once to a point and a coordinator drawn at the      *)
(* start                                                                   *)
(***************************************************************************)
\* two of the orders in which the map of shards may iterate
ShardOrders ==
    { <<"progressive-left", "conservative-right", "centrist-moderate",
        "traditional-left", "libertarian-right">>,
      <<"libertarian-right", "traditional-left", "centrist-moderate",
        "conservative-right", "progressive-left">> }

\* coordinates on, next to and far from every bound of the default regions, and NaN
Coordinates ==
    {-101, -100, -41, -40, -21, -20, -19, 0, 19, 20, 21, 40, 41, 100, 101, f32_NaN}
DiplomaticCoordinates == {-101, -100, 0, 100, 101, f32_NaN}

InitRoute ==
    /\ shard = genesis_shard
    /\ last = Call("new", "Ok", <<>>, <<>>)
    /\ overflow_checks = FALSE
    /\ protocol = NoProtocol
    /\ server = NoServer
    /\ \E order \in ShardOrders, economic \in Coordinates, social \in Coordinates,
          diplomatic \in DiplomaticCoordinates :
         call = [fn |-> "none",
                 arg |-> [protocol |-> PolisProtocol_new(order),
                          ideology_vector |-> <<economic, social, diplomatic>>],
                 out |-> <<>>]

CallRouteUser ==
    /\ call.fn = "none"
    /\ call' = [fn |-> "route_user",
                arg |-> call.arg,
                out |-> route_user(call.arg.protocol, call.arg.ideology_vector)]
    /\ UNCHANGED <<shard, last, overflow_checks, protocol, server>>

NextRoute == CallRouteUser

SpecRoute == InitRoute /\ [][NextRoute]_vars

(***************************************************************************)
(* The coordinator with its five default shards, driven by its public      *)
(* operations and by the campaign operations of one of its shards          *)
(***************************************************************************)
MaxBlocks == 1
MaxParticipants == 2
MaxActions == 1
MaxSubmitted == 1

uid_A == Chars(<<"A">>)
uid_B == Chars(<<"B">>)
name_A == Chars(<<"a">>)
ACME == Chars(<<"A","C","M","E">>)

P_one == <<-80, 80, 0>>     \* inside progressive-left only
P_two == <<-30, 30, 0>>     \* inside progressive-left and centrist-moderate
P_none == <<0, 50, 0>>      \* inside no default region
Points == {P_one, P_two, P_none}

\* the shard whose operations are also called directly, and a label of no shard
the_shard == "progressive-left"
ShardLabels == {the_shard, "nowhere"}

\* goals of the campaigns created explicitly
Goals == {u64_from(0), u64_from(1), u64_from(2)}

Request(op, result, args, block) ==
    [op |-> op, result |-> result, args |-> args, block |-> block]

InitProtocol ==
    /\ shard = genesis_shard
    /\ last = Request("new", "Ok", <<>>, <<>>)
    /\ overflow_checks \in BOOLEAN
    /\ call = NoCall
    /\ \E order \in ShardOrders : protocol = PolisProtocol_new(order)
    /\ server = NoServer

RegisterFirebaseUser(firebase_uid, coordinates) ==
    /\ last.result # "Panic"
    /\ \E now \in Times :
         LET r == register_firebase_user(protocol, firebase_uid, name_A, coordinates, now)
         IN  /\ protocol' = r.protocol
             /\ last' = Request("register_firebase_user", r.result,
                                <<firebase_uid, coordinates>>, <<>>)
    /\ UNCHANGED <<shard, overflow_checks, call, server>>

SubmitAction(shard_id, action) ==
    /\ last.result # "Panic"
    /\ LET r == submit_action(protocol, shard_id, action)
       IN  /\ shard_id \in DOMAIN protocol.shards /\ r.result = "Ok"
                => Len(protocol.shards[shard_id].pending_actions) < MaxSubmitted
           /\ protocol' = r.protocol
           /\ last' = Request("submit_action", r.result, <<shard_id, action>>, <<>>)
    /\ UNCHANGED <<shard, overflow_checks, call, server>>

\* the identity has room for one more action, and every shard of the identity for one
\* more block and one more participant
RoomFor(firebase_uid, target) ==
    firebase_uid \in DOMAIN protocol.firebase_users =>
      /\ ~u64_ge(protocol.firebase_users[firebase_uid].total_actions, u64_from(MaxActions))
      /\ \A k \in Range(protocol.user_routes[protocol.firebase_users[firebase_uid].polis_did]) :
            /\ Len(protocol.shards[k].state.blockchain) < MaxBlocks
            /\ \A i \in DOMAIN protocol.shards[k].state.active_campaigns :
                  LET c == protocol.shards[k].state.active_campaigns[i]
                  IN  c.campaign_id = target =>
                         ~u64_ge(c.verified_participants_count, u64_from(MaxParticipants))

RecordUserAction(firebase_uid, action_type, target, value_cents) ==
    /\ last.result # "Panic"
    /\ RoomFor(firebase_uid, target)
    /\ \E now \in Times :
         LET r == record_user_action(protocol, firebase_uid, action_type, target,
                                     value_cents, now, "r1", overflow_checks)
         IN  /\ protocol' = r.protocol
             /\ last' = Request("record_user_action", r.result,
                                <<firebase_uid, action_type, target, value_cents>>, <<>>)
    /\ UNCHANGED <<shard, overflow_checks, call, server>>

ShardCreateCampaign(shard_id, campaign_id, goal_participants) ==
    /\ last.result # "Panic"
    /\ \E now \in Times :
         LET r == create_campaign(protocol.shards[shard_id], campaign_id,
                                  goal_participants, u64_from(1), now, overflow_checks)
         IN  /\ protocol' = [protocol EXCEPT !.shards[shard_id] = r.shard]
             /\ last' = Request("create_campaign", r.result,
                                <<shard_id, campaign_id, goal_participants>>, <<>>)
    /\ UNCHANGED <<shard, overflow_checks, call, server>>

ShardUpdateCampaignState(shard_id, campaign_id, action) ==
    /\ last.result # "Panic"
    /\ \A i \in DOMAIN protocol.shards[shard_id].state.active_campaigns :
          LET c == protocol.shards[shard_id].state.active_campaigns[i]
          IN  c.campaign_id = campaign_id =>
                 ~u64_ge(c.verified_participants_count, u64_from(MaxParticipants))
    /\ \E now \in Times :
         LET r == update_campaign_state(protocol.shards[shard_id], campaign_id, action,
                                        now, overflow_checks)
         IN  /\ protocol' = [protocol EXCEPT !.shards[shard_id] = r.shard]
             /\ last' = Request("update_campaign_state", r.result,
                                <<shard_id, campaign_id, action>>, <<>>)
    /\ UNCHANGED <<shard, overflow_checks, call, server>>

ShardProduceBlock(shard_id) ==
    /\ last.result # "Panic"
    /\ \E now \in Times :
         LET r == produce_block(protocol.shards[shard_id], validator_V, now)
         IN  /\ protocol' = [protocol EXCEPT !.shards[shard_id] = r.shard]
             /\ last' = Request("produce_block", r.result, <<shard_id>>, r.block)
    /\ UNCHANGED <<shard, overflow_checks, call, server>>

\* the caller appends the block its last call, a successful produce_block, returned
ShardAddBlock(shard_id) ==
    /\ last.result # "Panic"
    /\ last.op = "produce_block" /\ last.result = "Ok" /\ last.args = <<shard_id>>
    /\ LET r == add_block(protocol.shards[shard_id], last.block[1], overflow_checks)
       IN  /\ r.result = "Ok" => Len(protocol.shards[shard_id].state.blockchain) < MaxBlocks
           /\ protocol' = [protocol EXCEPT !.shards[shard_id] = r.shard]
           /\ last' = Request("add_block", r.result, <<shard_id>>, last.block)
    /\ UNCHANGED <<shard, overflow_checks, call, server>>

NextProtocol ==
    \/ \E coordinates \in Points : RegisterFirebaseUser(uid_A, coordinates)
    \/ \E shard_id \in ShardLabels, action \in {A_ok, A_short} :
          SubmitAction(shard_id, action)
    \/ \E firebase_uid \in {uid_A, uid_B} :
          RecordUserAction(firebase_uid, "Boycott", ACME, u64_from(5000))

SpecProtocol == InitProtocol /\ [][NextProtocol]_vars

(***************************************************************************)
(* The campaigns of one shard of the coordinator: created explicitly with  *)
(* a small goal or lazily by record_user_action, and updated               *)
(***************************************************************************)
NextCampaign ==
    \/ RegisterFirebaseUser(uid_A, P_one)
    \/ RecordUserAction(uid_A, "Boycott", ACME, u64_from(5000))
    \/ SubmitAction(the_shard, A_ok)
    \/ \E goal_participants \in Goals :
          ShardCreateCampaign(the_shard, ACME, goal_participants)
    \/ ShardUpdateCampaignState(the_shard, ACME, A_ok)
    \/ ShardProduceBlock(the_shard)
    \/ ShardAddBlock(the_shard)

SpecCampaign == InitProtocol /\ [][NextCampaign]_vars

(***************************************************************************)
(* The coordinator while the callers of its shards append blocks they      *)
(* built themselves to a shard's chain                                     *)
(***************************************************************************)
MaxAppended == 2

\* the caller appends a block it built itself
ShardAddForgedBlock(shard_id, kind) ==
    /\ last.result # "Panic"
    /\ LET b == ForgedBlock(protocol.shards[shard_id], kind)
           r == add_block(protocol.shards[shard_id], b, overflow_checks)
       IN  /\ r.result = "Ok" => Len(protocol.shards[shard_id].state.blockchain) < MaxBlocks
           /\ protocol' = [protocol EXCEPT !.shards[shard_id] = r.shard]
           /\ last' = Request("add_block", r.result, <<shard_id, kind>>, <<b>>)
    /\ UNCHANGED <<shard, overflow_checks, call, server>>

\* record_user_action on chains that may already hold an appended block
RecordOnChain(firebase_uid, action_type, target, value_cents) ==
    /\ last.result # "Panic"
    /\ firebase_uid \in DOMAIN protocol.firebase_users
    /\ ~u64_ge(protocol.firebase_users[firebase_uid].total_actions, u64_from(MaxActions))
    /\ \A k \in Range(protocol.user_routes[protocol.firebase_users[firebase_uid].polis_did]) :
          /\ Len(protocol.shards[k].state.blockchain) < MaxAppended
          /\ \A i \in DOMAIN protocol.shards[k].state.active_campaigns :
                ~u64_ge(protocol.shards[k].state.active_campaigns[i].verified_participants_count,
                        u64_from(MaxParticipants))
    /\ \E now \in Times :
         LET r == record_user_action(protocol, firebase_uid, action_type, target,
                                     value_cents, now, "r1", overflow_checks)
         IN  /\ protocol' = r.protocol
             /\ last' = Request("record_user_action", r.result,
                                <<firebase_uid, action_type, target, value_cents>>, <<>>)
    /\ UNCHANGED <<shard, overflow_checks, call, server>>

NextAppend ==
    \/ \E coordinates \in Points : RegisterFirebaseUser(uid_A, coordinates)
    \/ \E kind \in {"well_formed", "index", "stale_hash"} :
          ShardAddForgedBlock(the_shard, kind)
    \/ RecordOnChain(uid_A, "Boycott", ACME, u64_from(5000))

SpecAppend == InitProtocol /\ [][NextAppend]_vars

(***************************************************************************)
(* The two copies of the membership: the coordinator's routing table and   *)
(* the node registries of its shards                                       *)
(***************************************************************************)
\* a label no default shard has
north == "north"

\* the ledgers a caller registers: a fresh one under a default label or under a new one
RegisteredLedgers ==
    { StanceShard_new(the_shard, Region(-100, -20, 20, 100)),
      StanceShard_new(north, Region(-20, 20, 40, 100)) }

\* the iteration orders the map can have once label k is in it
OrdersWith(k) ==
    IF k \in Range(protocol.order) THEN {protocol.order}
    ELSE {<<k>> \o protocol.order, protocol.order \o <<k>>}

RegisterShard(s) ==
    /\ last.result # "Panic"
    /\ \E order \in OrdersWith(s.shard_id) :
          protocol' = register_shard(protocol, s, order)
    /\ last' = Request("register_shard", "Ok", <<s.shard_id>>, <<>>)
    /\ UNCHANGED <<shard, overflow_checks, call, server>>

UpdateUserActivity(firebase_uid, is_online) ==
    /\ last.result # "Panic"
    /\ \E now \in Times :
         LET r == update_user_activity(protocol, firebase_uid, is_online, now)
         IN  /\ protocol' = r.protocol
             /\ last' = Request("update_user_activity", r.result,
                                <<firebase_uid, is_online>>, <<>>)
    /\ UNCHANGED <<shard, overflow_checks, call, server>>

NextMembership ==
    \/ \E s \in RegisteredLedgers : RegisterShard(s)
    \/ \E coordinates \in {P_one, P_none} : RegisterFirebaseUser(uid_A, coordinates)
    \/ \E firebase_uid \in {uid_A, uid_B}, is_online \in BOOLEAN :
          UpdateUserActivity(firebase_uid, is_online)
    \/ RecordUserAction(uid_A, "Boycott", ACME, u64_from(5000))

SpecMembership == InitProtocol /\ [][NextMembership]_vars

(***************************************************************************)
(* The coordinator's statistics, asked for between registrations, submitted *)
(* and recorded events                                                     *)
(***************************************************************************)
\* events of identity "u" two days after, and two days before, the epoch
A_later == [A_ok EXCEPT !.timestamp = 2 * SecondsPerDay + 1, !.action_id = "a4"]
A_early == [A_ok EXCEPT !.timestamp = 0 - 2 * SecondsPerDay, !.action_id = "a5"]

\* the values recorded
Values == {u64_from(5000), u64_MAX}

\* the identities and shard lists get_user_stats is asked about
StatsIdentities == {did_u, did_prefix \o uid_A}
StatsShardLists ==
    { <<the_shard>>, <<"nowhere", the_shard, "centrist-moderate">>, <<"nowhere">> }

GetGlobalStats ==
    /\ last.result # "Panic"
    /\ LET r == get_global_stats(protocol, overflow_checks)
       IN  /\ call' = [fn |-> "get_global_stats", arg |-> <<>>, out |-> r.stats]
           /\ last' = Request("get_global_stats", r.result, <<>>, <<>>)
    /\ UNCHANGED <<shard, overflow_checks, protocol, server>>

GetUserStats(user_did, shard_ids) ==
    /\ last.result # "Panic"
    /\ LET r == get_user_stats(protocol, user_did, shard_ids, overflow_checks)
       IN  /\ call' = [fn |-> "get_user_stats", arg |-> <<user_did, shard_ids>>,
                       out |-> r.stats]
           /\ last' = Request("get_user_stats", r.result, <<user_did, shard_ids>>, <<>>)
    /\ UNCHANGED <<shard, overflow_checks, protocol, server>>

NextStats ==
    \/ \E coordinates \in {P_one, P_two} : RegisterFirebaseUser(uid_A, coordinates)
    \/ \E action \in {A_later, A_early} : SubmitAction(the_shard, action)
    \/ \E value_cents \in Values : RecordUserAction(uid_A, "Boycott", ACME, value_cents)
    \/ GetGlobalStats
    \/ \E user_did \in StatsIdentities, shard_ids \in StatsShardLists :
          GetUserStats(user_did, shard_ids)

SpecStats == InitProtocol /\ [][NextStats]_vars

(***************************************************************************)
(* The API server: the request handlers run concurrently, each taking the  *)
(* coordinator's mutex on entry (`state.protocol.lock().unwrap()`) and     *)
(* dropping the guard when it returns.  record_user_action is taken        *)
(* statement by statement, the other core operations at once.              *)
(***************************************************************************)
\* mutant: the lock is granted whether or not a guard is alive
Mutex_free_always(lock) == TRUE

\* Mutex::lock returns once no guard is alive
Mutex_free(lock) == lock = <<>>

\* submit_action's `match request.action_type.as_str()`: <<>> is BAD_REQUEST
submit_action_type(name) ==
    CASE name = "BOYCOTT" -> <<"Boycott">>
      [] name = "BUYCOTT" -> <<"Buycott">>
      [] name = "VOTE" -> <<"Vote">>
      [] name = "DONATE" -> <<"Donate">>
      [] name = "RALLY" -> <<"Rally">>
      [] OTHER -> <<>>

\* record_action's `match req.action_type.as_str()`
record_action_type(name) ==
    CASE name = "Buycott" -> "Buycott"
      [] name = "Boycott" -> "Boycott"
      [] OTHER -> "Vote"

\* the event the submit_action handler builds from its request
submitted_action(request, action_type, now, action_id) ==
    [ user_did |-> request.user_did,
      action_type |-> action_type,
      target_entity |-> request.target_entity,
      value_diverted |-> request.value_diverted,
      zk_proof |-> request.zk_proof,
      timestamp |-> now,
      action_id |-> action_id ]

\* the body of a handler under the guard, as one call of the coordinator
handler_core(p, request, now, checks) ==
    CASE request.handler = "register_user" ->
            [ protocol |-> register_firebase_user(p, request.firebase_uid,
                               request.display_name, request.coordinates, now).protocol,
              result |-> "Ok" ]
      [] request.handler = "submit_action" ->
            IF submit_action_type(request.action_type) = <<>>
            THEN [protocol |-> p, result |-> "BAD_REQUEST"]
            ELSE submit_action(p, request.shard_id,
                     submitted_action(request, submit_action_type(request.action_type)[1],
                                      now, "s1"))
      [] request.handler = "user_heartbeat" ->
            update_user_activity(p, request.firebase_uid, request.is_online, now)
      [] request.handler = "record_action" ->
            record_user_action(p, request.firebase_uid,
                               record_action_type(request.action_type), request.target,
                               request.value_cents, now, "r1", checks)

\* the requests in flight
InFlight ==
    << [ handler |-> "register_user", firebase_uid |-> uid_A, display_name |-> name_A,
         coordinates |-> P_two ],
       [ handler |-> "record_action", firebase_uid |-> uid_A, action_type |-> "Boycott",
         target |-> ACME, value_cents |-> u64_from(5000) ],
       [ handler |-> "submit_action", user_did |-> did_u, action_type |-> "BOYCOTT",
         target_entity |-> target_T, value_diverted |-> u64_from(1),
         zk_proof |-> proof_firebase, shard_id |-> "centrist-moderate" ],
       [ handler |-> "user_heartbeat", firebase_uid |-> uid_A, is_online |-> FALSE ] >>

\* a handler: where it is, its loop position, the event it built, its response
NewHandler == [pc |-> "start", i |-> 0, action |-> <<>>, response |-> <<>>]

\* the server once `start_api_server` has built the ApiState, with the given requests
\* accepted and their handlers not yet run
serving(requests) ==
    /\ shard = genesis_shard
    /\ last = Request("new", "Ok", <<>>, <<>>)
    /\ overflow_checks \in BOOLEAN
    /\ call = NoCall
    /\ \E order \in ShardOrders : protocol = PolisProtocol_new(order)
    /\ server = [lock |-> <<>>, poisoned |-> FALSE, requests |-> requests,
                 handlers |-> [r \in DOMAIN requests |-> NewHandler]]

InitServer == serving(InFlight)

at(r, pc) == server.handlers[r].pc = pc

goto(r, pc) == [server EXCEPT !.handlers[r].pc = pc]

respond(r, result) ==
    [server EXCEPT !.handlers[r].pc = "returning", !.handlers[r].response = result]

\* `let mut protocol = state.protocol.lock().unwrap();`: once no guard is alive, lock()
\* returns the guard, or Err(PoisonError) when a handler panicked under the guard
\* before, and then unwrap() panics and the handler ends without entering
Lock(r) ==
    /\ at(r, "start")
    /\ Mutex_free(server.lock)
    /\ server' = IF server.poisoned
                 THEN [goto(r, "done") EXCEPT !.handlers[r].response = "Panic"]
                 ELSE [goto(r, "locked") EXCEPT !.lock = <<r>>]
    /\ UNCHANGED <<shard, last, overflow_checks, call, protocol>>

\* the handlers of register_user, submit_action and user_heartbeat
Core(r) ==
    /\ at(r, "locked")
    /\ server.requests[r].handler # "record_action"
    /\ \E now \in Times :
         LET out == handler_core(protocol, server.requests[r], now, overflow_checks)
         IN  /\ protocol' = out.protocol
             /\ server' = respond(r, out.result)
    /\ UNCHANGED <<shard, last, overflow_checks, call>>

\* record_user_action up to the loop: the user is looked up and the event built
RecordStart(r) ==
    /\ at(r, "locked")
    /\ server.requests[r].handler = "record_action"
    /\ IF server.requests[r].firebase_uid \notin DOMAIN protocol.firebase_users
       THEN server' = respond(r, UserNotFound)
       ELSE \E now \in Times :
              server' = [goto(r, "loop") EXCEPT
                  !.handlers[r].i = 1,
                  !.handlers[r].action =
                      << recorded_action(
                             protocol.firebase_users[server.requests[r].firebase_uid].polis_did,
                             server.requests[r].firebase_uid,
                             record_action_type(server.requests[r].action_type),
                             server.requests[r].target, server.requests[r].value_cents,
                             now, "r1") >>]
    /\ UNCHANGED <<shard, last, overflow_checks, call, protocol>>

\* the shard list the loop of handler r walks, and the shard it is at
loop_shards(r) ==
    IF server.handlers[r].action[1].user_did \in DOMAIN protocol.user_routes
    THEN protocol.user_routes[server.handlers[r].action[1].user_did]
    ELSE <<>>

loop_shard(r) == loop_shards(r)[server.handlers[r].i]

\* `for shard_id in shard_ids { if let Some(shard) = self.shards.get_mut(shard_id) {`
RecordLoop(r) ==
    /\ at(r, "loop")
    /\ server' = IF server.handlers[r].i > Len(loop_shards(r)) THEN goto(r, "count")
                 ELSE IF loop_shard(r) \notin DOMAIN protocol.shards
                 THEN [server EXCEPT !.handlers[r].i = @ + 1]
                 ELSE goto(r, "campaign")
    /\ UNCHANGED <<shard, last, overflow_checks, call, protocol>>

\* the outcome of one statement of the loop body: the shard is written, and the
\* handler goes on, or returns the error
statement(r, out, pc) ==
    /\ protocol' = [protocol EXCEPT !.shards[loop_shard(r)] = out.shard]
    /\ server' = IF out.result = "Ok" THEN goto(r, pc) ELSE respond(r, out.result)

\* the campaign is created when absent, and updated
RecordCampaign(r) ==
    /\ at(r, "campaign")
    /\ \E now \in Times :
         statement(r,
             then_update_campaign_state(
                 ensure_campaign(protocol.shards[loop_shard(r)],
                                 server.handlers[r].action[1].target_entity, now,
                                 overflow_checks),
                 server.handlers[r].action[1].target_entity,
                 server.handlers[r].action[1], now, overflow_checks),
             "enqueue")
    /\ UNCHANGED <<shard, last, overflow_checks, call>>

\* `shard.add_pending_action(action.clone())?`
RecordEnqueue(r) ==
    /\ at(r, "enqueue")
    /\ statement(r, add_pending_action(protocol.shards[loop_shard(r)],
                                       server.handlers[r].action[1]),
                 "seal")
    /\ UNCHANGED <<shard, last, overflow_checks, call>>

\* the block is produced and appended, and the loop goes to the next shard
RecordSeal(r) ==
    /\ at(r, "seal")
    /\ \E now \in Times :
         LET out == then_produce_block(
                        [shard |-> protocol.shards[loop_shard(r)], result |-> "Ok"],
                        server.handlers[r].action[1].user_did, now, overflow_checks)
         IN  /\ protocol' = [protocol EXCEPT !.shards[loop_shard(r)] = out.shard]
             /\ server' = IF out.result = "Ok"
                          THEN [goto(r, "loop") EXCEPT !.handlers[r].i = @ + 1]
                          ELSE respond(r, out.result)
    /\ UNCHANGED <<shard, last, overflow_checks, call>>

\* `user.total_actions += 1; Ok(())`
RecordCount(r) ==
    /\ at(r, "count")
    /\ LET out == count_action([protocol |-> protocol, result |-> "Ok"],
                               server.requests[r].firebase_uid, overflow_checks)
       IN  /\ protocol' = out.protocol
           /\ server' = respond(r, out.result)
    /\ UNCHANGED <<shard, last, overflow_checks, call>>

\* the handler returns its response, or unwinds from a panic, and the guard is dropped:
\* a guard dropped while panicking poisons the mutex
Return(r) ==
    /\ at(r, "returning")
    /\ server' = [goto(r, "done") EXCEPT
                     !.lock = <<>>,
                     !.poisoned = @ \/ server.handlers[r].response = "Panic"]
    /\ UNCHANGED <<shard, last, overflow_checks, call, protocol>>

NextServer ==
    \E r \in DOMAIN InFlight :
        \/ Lock(r)
        \/ Core(r)
        \/ RecordStart(r)
        \/ RecordLoop(r)
        \/ RecordCampaign(r)
        \/ RecordEnqueue(r)
        \/ RecordSeal(r)
        \/ RecordCount(r)
        \/ Return(r)

SpecServer == InitServer /\ [][NextServer]_vars

(***************************************************************************)
(* The same server with a record_action request of the greatest value, and *)
(* the scheduling of the runtime: while some handler can take a step (a    *)
(* task is ready, or the mutex is free and a lock() is waiting for it),    *)
(* one of them does                                                        *)
(***************************************************************************)
InFlightLarge ==
    [InFlight EXCEPT ![2].value_cents = u64_MAX]

InitServerLarge == serving(InFlightLarge)

\* the steps of the handlers but the sealing of a block
Scheduled ==
    \E r \in DOMAIN InFlight :
        \/ Lock(r)
        \/ Core(r)
        \/ RecordStart(r)
        \/ RecordLoop(r)
        \/ RecordCampaign(r)
        \/ RecordEnqueue(r)
        \/ RecordCount(r)
        \/ Return(r)

\* a handler that has enqueued its event goes on to seal the block: RecordSeal(r) can
\* be taken whenever r is at "seal", and leaves it
Sealing == \A r \in DOMAIN InFlight : []<>(~at(r, "seal"))

SpecServerFair ==
    InitServerLarge /\ [][NextServer]_vars /\ WF_vars(Scheduled) /\ Sealing

(***************************************************************************)
(* The chain statistics of the coordinator, asked for at several times of  *)
(* the wall clock while events are recorded at several times               *)
(***************************************************************************)
\* the greatest number of blocks of all the chains together
MaxHeight == 3

RECURSIVE total_height(_, _)
total_height(p, i) ==
    IF i > Len(p.order) THEN 0
    ELSE Len(p.shards[p.order[i]].state.blockchain) + total_height(p, i + 1)

\* the readings of the wall clock (seconds since the epoch) at which events are
\* recorded, and at which the statistics are asked for
RecordTimes == {2, 5}
StatsTimes == {1, 5, 15, 16}

P_right == <<80, -80, 0>>    \* inside conservative-right only

RecordUserActionAt(firebase_uid, now) ==
    /\ last.result # "Panic"
    /\ firebase_uid \in DOMAIN protocol.firebase_users
    /\ ~u64_ge(protocol.firebase_users[firebase_uid].total_actions, u64_from(MaxActions))
    /\ total_height(protocol, 1)
          + Len(protocol.user_routes[protocol.firebase_users[firebase_uid].polis_did])
          <= MaxHeight
    /\ LET r == record_user_action(protocol, firebase_uid, "Boycott", ACME, u64_from(5000),
                                   now, "r1", overflow_checks)
       IN  /\ protocol' = r.protocol
           /\ last' = Request("record_user_action", r.result, <<firebase_uid, now>>, <<>>)
    /\ UNCHANGED <<shard, overflow_checks, call, server>>

GetBlockchainStats(current_time) ==
    /\ last.result # "Panic"
    /\ last' = Request("get_blockchain_stats", "Ok", <<current_time>>,
                       <<get_blockchain_stats(protocol, current_time)>>)
    /\ UNCHANGED <<shard, overflow_checks, call, protocol, server>>

NextChainStats ==
    \/ \E coordinates \in {P_two, P_right} : RegisterFirebaseUser(uid_A, coordinates)
    \/ SubmitAction(the_shard, A_ok)
    \/ \E now \in RecordTimes : RecordUserActionAt(uid_A, now)
    \/ \E current_time \in StatsTimes : GetBlockchainStats(current_time)

SpecChainStats == InitProtocol /\ [][NextChainStats]_vars

(***************************************************************************)
(* Vocabulary of the properties                                            *)
(***************************************************************************)
chain == shard.state.blockchain
pool == shard.pending_actions
campaigns == shard.state.active_campaigns

VerificationFailed == "Block verification failed"
InvalidProof == "Invalid ZK proof"
EmptyPool == "No pending actions to include in block"

\* the proof policy as the specification words it
HasRecognizedPrefix(token) ==
    /\ Len(token) >= Len(firebase_prefix)
    /\ \A i \in 1..Len(firebase_prefix) : token[i] = firebase_prefix[i]

ProofPolicy(token) ==
    Len(token) > 0 /\ (HasRecognizedPrefix(token) \/ Len(token) >= MinProofLen)

\* exact (unbounded) sums of u64 values, on five limbs
wide(u) == u \o <<0>>

wide_add(w, u) ==
    LET s1 == w[1] + u[1]
        s2 == w[2] + u[2] + (s1 \div LimbBase)
        s3 == w[3] + u[3] + (s2 \div LimbBase)
        s4 == w[4] + u[4] + (s3 \div LimbBase)
    IN  <<s1 % LimbBase, s2 % LimbBase, s3 % LimbBase, s4 % LimbBase,
          w[5] + (s4 \div LimbBase)>>

RECURSIVE wide_sum(_)
wide_sum(us) ==
    IF us = <<>> THEN wide(u64_from(0))
    ELSE wide_add(wide_sum(SubSeq(us, 1, Len(us) - 1)), us[Len(us)])

block_strengths(blocks) == [i \in DOMAIN blocks |-> blocks[i].union_strength]

RECURSIVE block_values(_)
block_values(blocks) ==
    IF blocks = <<>> THEN <<>>
    ELSE block_values(SubSeq(blocks, 1, Len(blocks) - 1))
         \o [i \in DOMAIN blocks[Len(blocks)].actions |->
               blocks[Len(blocks)].actions[i].value_diverted]

ChainLinked ==
    \A i \in 2..Len(chain) : chain[i].previous_hash = chain[i - 1].hash

BadLinkRejected ==
    ( /\ last'.op = "add_block"
      /\ chain # <<>>
      /\ last'.block[1].previous_hash # chain[Len(chain)].hash )
    => (last'.result = VerificationFailed /\ shard' = shard)

(***************************************************************************)
(* C1  Hash-chain integrity.  In every reachable state each block after    *)
(* the first names the hash of the block before it as its previous_hash,   *)
(* and add_block on a non-empty chain rejects, with the verification       *)
(* error and without touching the shard, every block whose previous_hash   *)
(* is not the hash of the chain's tail.                                    *)
(***************************************************************************)
C1_HashChainIntegrity == []ChainLinked /\ [][BadLinkRejected]_vars

\* a chain of two blocks, and a block refused for its link alone
C1_Witness ==
    /\ Len(chain) >= 2
    /\ last.op = "add_block"
    /\ last.result = VerificationFailed
    /\ last.block[1].hash = calculate_hash(last.block[1])
    /\ last.block[1].index = u64_wrapping_add(chain[Len(chain)].index, u64_from(1))
    /\ last.block[1].previous_hash # chain[Len(chain)].hash

(***************************************************************************)
(* C2  Heights are 0-based and gapless: in every reachable state the block *)
(* at position i of the chain (counting from 0) has index i, and the first *)
(* block has the all-zero previous_hash, whatever blocks add_block is      *)
(* given.  (Stated as claimed; add_block does not check the first block.)  *)
(***************************************************************************)
C2_GaplessHeights ==
    /\ \A i \in DOMAIN chain : chain[i].index = u64_from(i - 1)
    /\ chain # <<>> => chain[1].previous_hash = zero_hash

(***************************************************************************)
(* C3  A call of add_block that returns the verification error leaves the  *)
(* whole shard as it was: chain, both totals, campaigns and pending pool.  *)
(***************************************************************************)
C3_FailedAppendIsAtomic ==
    [][ (last'.op = "add_block" /\ last'.result = VerificationFailed)
        => shard' = shard ]_vars

\* a refused block on a shard that has a chain, totals, a campaign and a pool
C3_Witness ==
    /\ last.op = "add_block"
    /\ last.result = VerificationFailed
    /\ chain # <<>>
    /\ pool # <<>>
    /\ campaigns # <<>>
    /\ shard.state.total_union_strength # u64_from(0)
    /\ shard.state.total_capital_diverted # u64_from(0)

(***************************************************************************)
(* C4  In every reachable state total_union_strength is the sum of the     *)
(* union_strength of the chain's blocks and total_capital_diverted is the  *)
(* sum of value_diverted over all events of all blocks.  (Stated as        *)
(* claimed, with exact sums, for the states no call has panicked in; the   *)
(* u64 accumulators overflow.)                                             *)
(***************************************************************************)
C4_TotalsAreSums ==
    last.result # "Panic" =>
        /\ wide(shard.state.total_union_strength) = wide_sum(block_strengths(chain))
        /\ wide(shard.state.total_capital_diverted) = wide_sum(block_values(chain))

(***************************************************************************)
(* C5  (as claimed) After any single field of a verified block is given    *)
(* another value, calculate_hash differs from the stored hash and verify   *)
(* rejects the block.                                                      *)
(***************************************************************************)
C5_AnyFieldDetected ==
    call.fn = "verify" =>
        /\ call.out.calculate_hash # call.arg.block.hash
        /\ call.out.verify = "false"

HashedFields ==
    {"index", "timestamp", "previous_hash", "union_strength", "merkle_root"}

(***************************************************************************)
(* C5  (amended) After index, timestamp, previous_hash, union_strength,    *)
(* merkle_root or hash of a verified block is given another value,         *)
(* calculate_hash differs from the stored hash and verify rejects the      *)
(* block; after actions or validator is given another value,               *)
(* calculate_hash still equals the stored hash.                            *)
(***************************************************************************)
C5_HashedFieldDetected ==
    call.fn = "verify" =>
        /\ call.arg.field \in HashedFields \cup {"hash"} =>
              /\ call.out.calculate_hash # call.arg.block.hash
              /\ call.out.verify = "false"
        /\ call.arg.field \in {"actions", "validator"} =>
              call.out.calculate_hash = call.arg.block.hash

\* the union strength of a linked block was changed and verify refused it
C5_Witness ==
    /\ call.fn = "verify"
    /\ call.arg.field = "union_strength"
    /\ call.arg.previous # <<>>
    /\ call.arg.original.hash = calculate_hash(call.arg.original)
    /\ call.out.verify = "false"

(***************************************************************************)
(* C6  The Merkle root of three events is H(H(h1 || h2) || h3): the        *)
(* unpaired third hash goes to the next level unchanged.  (Stated as       *)
(* claimed; the code hashes the unpaired node once more.)                  *)
(***************************************************************************)
C6_OddNodeCarried ==
    (call.fn = "calculate_merkle_root" /\ Len(call.arg) = 3) =>
        call.out = sha256_hex(
                      sha256_hex(ImpactAction_hash(call.arg[1])
                                 \o ImpactAction_hash(call.arg[2]))
                      \o ImpactAction_hash(call.arg[3]))

DistinctHashes(events) ==
    \A i, j \in DOMAIN events :
        i # j => ImpactAction_hash(events[i]) # ImpactAction_hash(events[j])

Reordered(events, p) == [i \in DOMAIN events |-> events[p[i]]]

(***************************************************************************)
(* C7  The Merkle root of no events is the all-zero sentinel, of one event *)
(* that event's content hash, and two different orders of the same events  *)
(* with pairwise different content hashes have different roots.            *)
(***************************************************************************)
C7_MerkleRoot ==
    call.fn = "calculate_merkle_root" =>
        /\ call.arg = <<>> => call.out = zero_hash
        /\ Len(call.arg) = 1 => call.out = ImpactAction_hash(call.arg[1])
        /\ DistinctHashes(call.arg) =>
              \A p \in Permutations(DOMAIN call.arg) :
                  Reordered(call.arg, p) # call.arg
                  => calculate_merkle_root(Reordered(call.arg, p)) # call.out

\* the root of three events with three different content hashes
C7_Witness ==
    /\ call.fn = "calculate_merkle_root"
    /\ Len(call.arg) = 3
    /\ DistinctHashes(call.arg)
    /\ call.out # zero_hash

(***************************************************************************)
(* C8  add_pending_action returns the invalid-proof error and leaves the   *)
(* shard unchanged when the event fails the proof policy; otherwise it     *)
(* returns Ok and appends the event at the end of the pending pool, the    *)
(* earlier entries keeping their order, also when the event's action_id    *)
(* is already in the pool or in the chain.                                 *)
(***************************************************************************)
C8_Enqueue ==
    [][ last'.op = "add_pending_action" =>
          IF ProofPolicy(last'.action[1].zk_proof)
          THEN /\ last'.result = "Ok"
               /\ shard' = [shard EXCEPT !.pending_actions = Append(@, last'.action[1])]
          ELSE /\ last'.result = InvalidProof
               /\ shard' = shard ]_vars

\* an accepted event whose action_id is that of a different event before it in the
\* pool and of an event in the chain
C8_Witness ==
    /\ last.op = "add_pending_action"
    /\ last.result = "Ok"
    /\ Len(pool) >= 2
    /\ pool[Len(pool)] = last.action[1]
    /\ \E i \in 1..(Len(pool) - 1) :
          pool[i].action_id = last.action[1].action_id /\ pool[i] # last.action[1]
    /\ \E k \in DOMAIN chain : \E i \in DOMAIN chain[k].actions :
          chain[k].actions[i].action_id = last.action[1].action_id

(***************************************************************************)
(* C9  verify_zk_proof is true exactly when the token is non-empty and     *)
(* either starts with "firebase_verified_" or has at least 32 characters.  *)
(***************************************************************************)
C9_ProofPredicate ==
    call.fn = "verify_zk_proof" => (call.out <=> ProofPolicy(call.arg.zk_proof))

\* a token of exactly 32 characters without the prefix is accepted
C9_Witness ==
    /\ call.fn = "verify_zk_proof"
    /\ Len(call.arg.zk_proof) = MinProofLen
    /\ ~HasRecognizedPrefix(call.arg.zk_proof)
    /\ call.out = TRUE

(***************************************************************************)
(* C10  produce_block on a shard whose pending pool is empty returns the   *)
(* empty-pool error, returns no block, and leaves the whole shard as it    *)
(* was.                                                                    *)
(***************************************************************************)
C10_EmptyPoolRefused ==
    [][ (last'.op = "produce_block" /\ pool = <<>>)
        => (last'.result = EmptyPool /\ last'.block = <<>> /\ shard' = shard) ]_vars

\* the refusal on a shard that has a chain, totals and a campaign
C10_Witness ==
    /\ last.op = "produce_block"
    /\ last.result = EmptyPool
    /\ chain # <<>>
    /\ campaigns # <<>>
    /\ shard.state.total_capital_diverted # u64_from(0)

(***************************************************************************)
(* C11: a successful produce_block returns a block whose events are the    *)
(* whole pending pool in pool order, leaves the pool empty and leaves the  *)
(* chain as it was: same blocks, same height, same running totals          *)
(***************************************************************************)
C11_ProduceBlockFrame ==
    [][ (last'.op = "produce_block" /\ last'.result = "Ok") =>
          /\ Len(last'.block) = 1
          /\ last'.block[1].actions = shard.pending_actions
          /\ shard'.pending_actions = <<>>
          /\ shard'.state.blockchain = shard.state.blockchain
          /\ height(shard'.state) = height(shard.state)
          /\ shard'.state.total_union_strength = shard.state.total_union_strength
          /\ shard'.state.total_capital_diverted = shard.state.total_capital_diverted
      ]_vars

\* a block of two different events was produced on top of a chain that has a block
C11_Witness ==
    /\ last.op = "produce_block" /\ last.result = "Ok"
    /\ Len(last.block[1].actions) = 2
    /\ last.block[1].actions[1] # last.block[1].actions[2]
    /\ pool = <<>>
    /\ chain # <<>>

\* the campaigns of the shard registered under label k, and the events of its chain
campaigns_of(k) == protocol.shards[k].state.active_campaigns

\* the campaign is one participant short of its goal and Active
OneShort(c) ==
    /\ c.status = "Active"
    /\ c.goal_participants # u64_from(0)
    /\ u64_wrapping_add(c.verified_participants_count, u64_from(1)) = c.goal_participants

\* a step that calls update_campaign_state once for campaign `id` of shard k: the
\* call itself, or a record_user_action for that target by an identity routed to k
UpdatesOnce(k, id) ==
    \/ /\ last'.op = "update_campaign_state" /\ last'.result = "Ok"
       /\ last'.args[1] = k /\ last'.args[2] = id
    \/ /\ last'.op = "record_user_action" /\ last'.result = "Ok"
       /\ last'.args[3] = id
       /\ k \in Range(protocol.user_routes[protocol.firebase_users[last'.args[1]].polis_did])

(***************************************************************************)
(* C12: a campaign that is Active with verified_participants_count =       *)
(* goal - 1 is Achieved after one more update_campaign_state call for it,  *)
(* and no operation sets an Achieved campaign back to Active               *)
(***************************************************************************)
C12_CampaignThreshold ==
    [][ \A k \in DOMAIN protocol.shards : \A i \in DOMAIN campaigns_of(k) :
          LET c == campaigns_of(k)[i]
              after == protocol'.shards[k].state.active_campaigns
          IN  /\ (OneShort(c) /\ UpdatesOnce(k, c.campaign_id)) =>
                     /\ after[i].campaign_id = c.campaign_id
                     /\ after[i].status = "Achieved"
              /\ c.status = "Achieved" =>
                     /\ i \in DOMAIN after
                     /\ after[i].campaign_id = c.campaign_id
                     /\ after[i].status # "Active"
      ]_vars

\* the second of two updates has taken a campaign of goal 2 to Achieved
C12_Witness ==
    /\ last.op = "update_campaign_state" /\ last.result = "Ok"
    /\ \E i \in DOMAIN campaigns_of(the_shard) :
          LET c == campaigns_of(the_shard)[i]
          IN  /\ c.campaign_id = last.args[2]
              /\ c.goal_participants = u64_from(2)
              /\ c.verified_participants_count = u64_from(2)
              /\ c.status = "Achieved"

(***************************************************************************)
(* C13: update_campaign_state for a target the shard has no campaign for   *)
(* creates the campaign with the default goal and duration and applies the *)
(* update: afterwards the campaign exists with one verified participant    *)
(* and the event's value as its diverted capital                           *)
(***************************************************************************)
C13_UpdateCreatesCampaign ==
    [][ \A k \in DOMAIN protocol.shards :
          ( /\ last'.op = "update_campaign_state" /\ last'.result = "Ok"
            /\ last'.args[1] = k
            /\ \A i \in DOMAIN campaigns_of(k) :
                   campaigns_of(k)[i].campaign_id # last'.args[2] )
          => \E i \in DOMAIN protocol'.shards[k].state.active_campaigns :
                LET c == protocol'.shards[k].state.active_campaigns[i]
                IN  /\ c.campaign_id = last'.args[2]
                    /\ c.goal_participants = u64_from(DefaultGoal)
                    /\ c.verified_participants_count = u64_from(1)
                    /\ c.total_capital_diverted = last'.args[3].value_diverted
      ]_vars

\* no shard holds two campaigns of the same campaign_id
UniqueCampaignIds ==
    \A k \in DOMAIN protocol.shards : \A i, j \in DOMAIN campaigns_of(k) :
        campaigns_of(k)[i].campaign_id = campaigns_of(k)[j].campaign_id => i = j

\* create_campaign with an id the shard already has is refused and changes nothing
DuplicateRefused ==
    \A k \in DOMAIN protocol.shards :
        ( /\ last'.op = "create_campaign" /\ last'.args[1] = k
          /\ \E i \in DOMAIN campaigns_of(k) :
                 campaigns_of(k)[i].campaign_id = last'.args[2] )
        => /\ last'.result = "Campaign already exists"
           /\ protocol' = protocol

(***************************************************************************)
(* C14: create_campaign with an id that exists in the shard returns the    *)
(* campaign-already-exists error and leaves the campaigns unchanged; so no *)
(* reachable state has a shard with two campaigns of the same campaign_id  *)
(***************************************************************************)
C14_CampaignIdsUnique == []UniqueCampaignIds /\ [][DuplicateRefused]_vars

\* an explicit creation was refused because record_user_action had created the
\* campaign lazily, and the campaign still has its participant
C14_Witness ==
    /\ last.op = "create_campaign" /\ last.result = "Campaign already exists"
    /\ Len(campaigns_of(the_shard)) = 1
    /\ campaigns_of(the_shard)[1].campaign_id = last.args[2]
    /\ campaigns_of(the_shard)[1].goal_participants = u64_from(DefaultGoal)
    /\ campaigns_of(the_shard)[1].verified_participants_count = u64_from(1)

\* coordinate x is a number that lies in the closed interval [lo, hi]
Within(x, lo, hi) == x # f32_NaN /\ lo <= x /\ x <= hi

Inside(point, r) ==
    /\ Within(point[1], r.economic_min, r.economic_max)
    /\ Within(point[2], r.social_min, r.social_max)
    /\ Within(point[3], r.diplomatic_min, r.diplomatic_max)

(***************************************************************************)
(* C15: route_user(P) holds the label of a registered shard exactly when   *)
(* each of P's three coordinates lies within the shard's closed [min, max] *)
(* bounds (a coordinate equal to a bound is inside); a point inside        *)
(* several regions gets all their labels, a point inside none gets none    *)
(***************************************************************************)
C15_RangeContainment ==
    call.fn = "route_user" =>
        \A k \in DOMAIN call.arg.protocol.shards :
            LET S == call.arg.protocol.shards[k]
            IN  S.shard_id \in Range(call.out)
                    <=> Inside(call.arg.ideology_vector, S.ideology_range)

\* a point on the corner shared by three regions gets the three labels
C15_Witness ==
    /\ call.fn = "route_user"
    /\ call.arg.ideology_vector = <<-20, 20, 100>>
    /\ Range(call.out) = {"progressive-left", "centrist-moderate", "traditional-left"}

\* the identity a firebase uid is registered under
did_of(firebase_uid) == did_prefix \o firebase_uid

(***************************************************************************)
(* C16: after register_firebase_user(uid, name, point) the routing table   *)
(* entry of the identity is exactly route_user(point); in each of those    *)
(* shards the membership registry holds the identity with is_online = true *)
(* and last_heartbeat_block = that shard's height; no other shard gains an *)
(* entry                                                                   *)
(***************************************************************************)
C16_RegistrationRecordsMembership ==
    [][ last'.op = "register_firebase_user" =>
          LET did == did_of(last'.args[1])
              routed == route_user(protocol', last'.args[2])
          IN  /\ last'.result = "Ok"
              /\ did \in DOMAIN protocol'.user_routes
              /\ protocol'.user_routes[did] = routed
              /\ \A k \in Range(routed) :
                    /\ did \in DOMAIN protocol'.shards[k].nodes
                    /\ protocol'.shards[k].nodes[did].is_online = TRUE
                    /\ protocol'.shards[k].nodes[did].last_heartbeat_block
                           = height(protocol'.shards[k].state)
              /\ \A k \in DOMAIN protocol.shards \ Range(routed) :
                    DOMAIN protocol'.shards[k].nodes = DOMAIN protocol.shards[k].nodes
      ]_vars

\* a registration routed to two shards, one of which already has a block
C16_Witness ==
    /\ last.op = "register_firebase_user"
    /\ Len(protocol.user_routes[did_of(last.args[1])]) = 2
    /\ the_shard \in Range(protocol.user_routes[did_of(last.args[1])])
    /\ Len(protocol.shards[the_shard].state.blockchain) = 1
    /\ protocol.shards[the_shard].nodes[did_of(last.args[1])].last_heartbeat_block
          = u64_from(1)

\* no registered shard's region holds the point
InNoRegion(point) ==
    \A k \in DOMAIN protocol.shards : ~Inside(point, protocol.shards[k].ideology_range)

(***************************************************************************)
(* C17: registering an identity whose point lies in no shard's region      *)
(* succeeds and stores an empty shard set for it; a later                  *)
(* record_user_action for that identity returns Ok and changes no shard's  *)
(* pending pool, chain, campaigns or totals                                *)
(***************************************************************************)
C17_EmptyRouting ==
    [][ /\ (last'.op = "register_firebase_user" /\ InNoRegion(last'.args[2])) =>
              /\ last'.result = "Ok"
              /\ did_of(last'.args[1]) \in DOMAIN protocol'.user_routes
              /\ protocol'.user_routes[did_of(last'.args[1])] = <<>>
        /\ ( /\ last'.op = "record_user_action"
             /\ did_of(last'.args[1]) \in DOMAIN protocol.user_routes
             /\ protocol.user_routes[did_of(last'.args[1])] = <<>> ) =>
              /\ last'.result = "Ok"
              /\ \A k \in DOMAIN protocol.shards :
                    /\ protocol'.shards[k].pending_actions = protocol.shards[k].pending_actions
                    /\ protocol'.shards[k].state = protocol.shards[k].state
      ]_vars

\* an identity with an empty shard set has recorded an action, and the block that an
\* earlier registration of it had produced is still the shard's chain
C17_Witness ==
    /\ last.op = "record_user_action" /\ last.result = "Ok"
    /\ protocol.user_routes[did_of(last.args[1])] = <<>>
    /\ protocol.firebase_users[last.args[1]].coordinates = P_none
    /\ protocol.firebase_users[last.args[1]].total_actions = u64_from(1)
    /\ Len(protocol.shards[the_shard].state.blockchain) = 1

\* the counters of the campaign `id` of shard record s: zero when it has none
participants_in(s, id) ==
    IF get_campaign_state(s, id) = <<>> THEN u64_from(0)
    ELSE get_campaign_state(s, id)[1].verified_participants_count

capital_in(s, id) ==
    IF get_campaign_state(s, id) = <<>> THEN u64_from(0)
    ELSE get_campaign_state(s, id)[1].total_capital_diverted

(***************************************************************************)
(* C18: for an identity registered in two or more shards, one successful   *)
(* record_user_action updates each of those shards: its campaign for the   *)
(* target gains one participant and the event's value, its chain grows by  *)
(* one block and its cumulative strength grows by one, each from that      *)
(* shard's own earlier values                                              *)
(***************************************************************************)
C18_MultiHoming ==
    [][ ( /\ last'.op = "record_user_action" /\ last'.result = "Ok"
          /\ Len(protocol.user_routes[did_of(last'.args[1])]) >= 2 )
        => \A k \in Range(protocol.user_routes[did_of(last'.args[1])]) :
              LET before == protocol.shards[k]
                  after == protocol'.shards[k]
              IN  /\ participants_in(after, last'.args[3])
                        = u64_wrapping_add(participants_in(before, last'.args[3]), u64_from(1))
                  /\ capital_in(after, last'.args[3])
                        = u64_wrapping_add(capital_in(before, last'.args[3]), last'.args[4])
                  /\ Len(after.state.blockchain) = Len(before.state.blockchain) + 1
                  /\ after.state.total_union_strength
                        = u64_wrapping_add(before.state.total_union_strength, u64_from(1))
      ]_vars

\* the coordinator is freshly constructed but for identity uid registered at [-80, 80, 0]
FreshWith(firebase_uid) ==
    \E order \in ShardOrders, now \in Times :
        protocol = register_firebase_user(PolisProtocol_new(order), firebase_uid, name_A,
                                          <<-80, 80, 0>>, now).protocol

\* all campaigns and all blocks of the coordinator's state p, as (label, position) pairs
AllCampaigns(p) ==
    UNION {{<<k, i>> : i \in DOMAIN p.shards[k].state.active_campaigns} :
              k \in DOMAIN p.shards}

AllBlocks(p) ==
    UNION {{<<k, i>> : i \in DOMAIN p.shards[k].state.blockchain} : k \in DOMAIN p.shards}

(***************************************************************************)
(* C19: on a freshly constructed coordinator with identity A registered at *)
(* [-80, 80, 0], record_user_action(A, Boycott, "ACME", 5000) results in   *)
(* exactly one campaign, "ACME" with one verified participant and 5000     *)
(* diverted, exactly one block, at height 0 and holding exactly that       *)
(* event, and get_global_stats().total_capital_diverted = 5000             *)
(***************************************************************************)
C19_EndToEnd ==
    [][ ( /\ last'.op = "record_user_action"
          /\ last'.args = <<last'.args[1], "Boycott", ACME, u64_from(5000)>>
          /\ FreshWith(last'.args[1]) )
        => /\ last'.result = "Ok"
           /\ Cardinality(AllCampaigns(protocol')) = 1
           /\ \A x \in AllCampaigns(protocol') :
                 LET c == protocol'.shards[x[1]].state.active_campaigns[x[2]]
                 IN  /\ c.campaign_id = ACME
                     /\ c.verified_participants_count = u64_from(1)
                     /\ c.total_capital_diverted = u64_from(5000)
           /\ Cardinality(AllBlocks(protocol')) = 1
           /\ \A x \in AllBlocks(protocol') :
                 LET b == protocol'.shards[x[1]].state.blockchain[x[2]]
                 IN  /\ x[2] = 1
                     /\ b.index = u64_from(0)
                     /\ Len(b.actions) = 1
                     /\ b.actions[1].user_did = did_of(last'.args[1])
                     /\ b.actions[1].action_type = "Boycott"
                     /\ b.actions[1].target_entity = ACME
                     /\ b.actions[1].value_diverted = u64_from(5000)
           /\ get_global_stats(protocol', overflow_checks).result = "Ok"
           /\ get_global_stats(protocol', overflow_checks).stats.total_capital_diverted
                 = u64_from(5000)
      ]_vars

\* the scenario has run: A, registered at [-80, 80, 0], has recorded its one action
\* and only its shard has anything in it
C19_Witness ==
    /\ last.op = "record_user_action" /\ last.result = "Ok"
    /\ last.args = <<uid_A, "Boycott", ACME, u64_from(5000)>>
    /\ protocol.firebase_users[uid_A].coordinates = <<-80, 80, 0>>
    /\ protocol.firebase_users[uid_A].total_actions = u64_from(1)
    /\ AllBlocks(protocol) = {<<the_shard, 1>>}
    /\ AllCampaigns(protocol) = {<<the_shard, 1>>}
    /\ \A k \in DOMAIN protocol.shards : protocol.shards[k].pending_actions = <<>>
    /\ Len(protocol.shards[the_shard].state.blockchain[1].actions) = 1

ShardNotFound == "Shard not found"

(***************************************************************************)
(* C20: submit_action with a label that is not registered returns the      *)
(* shard-not-found error and changes no state; with a registered label its *)
(* result and effect are those of that shard's add_pending_action, and no  *)
(* other shard, no campaign and no chain is touched                        *)
(***************************************************************************)
C20_SubmitDelegates ==
    [][ last'.op = "submit_action" =>
          LET shard_id == last'.args[1]
              action == last'.args[2]
          IN  IF shard_id \notin DOMAIN protocol.shards
              THEN /\ last'.result = ShardNotFound
                   /\ protocol' = protocol
              ELSE /\ last'.result = add_pending_action(protocol.shards[shard_id], action).result
                   /\ protocol'.shards[shard_id]
                         = add_pending_action(protocol.shards[shard_id], action).shard
                   /\ protocol'.shards[shard_id].state = protocol.shards[shard_id].state
                   /\ \A k \in DOMAIN protocol.shards \ {shard_id} :
                         protocol'.shards[k] = protocol.shards[k]
                   /\ DOMAIN protocol'.shards = DOMAIN protocol.shards
                   /\ protocol'.user_routes = protocol.user_routes
                   /\ protocol'.firebase_users = protocol.firebase_users
      ]_vars

\* an event was submitted to, and is pending in, a shard that has a block and a campaign
C20_Witness ==
    /\ last.op = "submit_action" /\ last.result = "Ok"
    /\ protocol.shards[last.args[1]].pending_actions = <<last.args[2]>>
    /\ Len(protocol.shards[last.args[1]].state.blockchain) = 1
    /\ Len(protocol.shards[last.args[1]].state.active_campaigns) = 1

(***************************************************************************)
(* C21: record_user_action for an identity that was never registered       *)
(* returns the error "User not found" and changes neither the coordinator  *)
(* nor any shard.                                                          *)
(***************************************************************************)
C21_UnknownIdentityRefused ==
    [][ /\ last'.op = "record_user_action"
        /\ last'.args[1] \notin DOMAIN protocol.firebase_users
        => /\ last'.result = UserNotFound
           /\ protocol' = protocol ]_vars

\* an unknown identity was refused by a coordinator that already holds a registered
\* identity and a sealed block
C21_Witness ==
    /\ last.op = "record_user_action"
    /\ last.args[1] \notin DOMAIN protocol.firebase_users
    /\ last.result = UserNotFound
    /\ protocol.firebase_users # <<>>
    /\ \E k \in DOMAIN protocol.shards : protocol.shards[k].state.blockchain # <<>>

(***************************************************************************)
(* C22: with the automatic threshold of one pending event, every accepted  *)
(* event is sealed into a block of its own: after any sequence of          *)
(* register_firebase_user, submit_action and record_user_action on shards  *)
(* that start empty, every block of every shard holds exactly one event.   *)
(***************************************************************************)
C22_OneEventPerBlock ==
    \A k \in DOMAIN protocol.shards :
       \A i \in DOMAIN protocol.shards[k].state.blockchain :
          Len(protocol.shards[k].state.blockchain[i].actions) = 1

(***************************************************************************)
(* C23: inside record_user_action, when the block of a shard is not        *)
(* appended after the event was enqueued, the enqueue stands: the event    *)
(* stays in that shard's pending pool and the call still returns Ok.       *)
(***************************************************************************)
recorded_by(request) ==
    recorded_action(did_of(request.args[1]), request.args[1], request.args[2],
                    request.args[3], request.args[4], 1, "r1")

C23_FailureAbsorbed ==
    [][ ( /\ last'.op = "record_user_action"
          /\ last'.result # "Panic"
          /\ last'.args[1] \in DOMAIN protocol.firebase_users )
        => \A k \in Range(protocol.user_routes[did_of(last'.args[1])]) :
              protocol'.shards[k].state.blockchain = protocol.shards[k].state.blockchain
                 => /\ last'.result = "Ok"
                    /\ \E i \in DOMAIN protocol'.shards[k].pending_actions :
                          protocol'.shards[k].pending_actions[i] = recorded_by(last')
      ]_vars

(***************************************************************************)
(* C24: the two copies of the membership agree: label L is in the routing  *)
(* table's entry of identity I exactly when the node registry of shard L   *)
(* holds I, after any sequence of register_shard, register_firebase_user   *)
(* (re-registration at another point included), update_user_activity and   *)
(* record_user_action.                                                     *)
(***************************************************************************)
routed_to(polis_did) ==
    IF polis_did \in DOMAIN protocol.user_routes
    THEN Range(protocol.user_routes[polis_did]) ELSE {}

C24_MembershipConsistent ==
    \A k \in DOMAIN protocol.shards :
       \A polis_did \in DOMAIN protocol.user_routes \cup DOMAIN protocol.shards[k].nodes :
          k \in routed_to(polis_did) <=> polis_did \in DOMAIN protocol.shards[k].nodes

(***************************************************************************)
(* C25: get_global_stats returns the number of registered shards and, for  *)
(* the online count, the strength, the diverted value and the campaign     *)
(* count, exactly the sum of the get_stats fields of all registered        *)
(* shards.                                                                 *)
(***************************************************************************)
stats_column(field) ==
    [i \in DOMAIN protocol.order |-> get_stats(protocol.shards[protocol.order[i]])[field]]

C25_GlobalStatsAreSums ==
    last.op = "get_global_stats" /\ last.result # "Panic" =>
        /\ call.out.total_shards = u64_from(Cardinality(DOMAIN protocol.shards))
        /\ wide(call.out.total_online_nodes) = wide_sum(stats_column("online_nodes"))
        /\ wide(call.out.total_union_strength)
              = wide_sum(stats_column("total_union_strength"))
        /\ wide(call.out.total_capital_diverted)
              = wide_sum(stats_column("total_capital_diverted"))
        /\ wide(call.out.total_active_campaigns)
              = wide_sum(stats_column("active_campaigns_count"))

(***************************************************************************)
(* C26: get_user_stats(identity, labels) counts, over every block of every *)
(* named shard that exists, the events of that identity: total_actions and *)
(* campaigns_joined are the number of those events, total_diverted is the  *)
(* sum of their values, streak_days is (latest timestamp - earliest        *)
(* timestamp) / 86400 in integer division, and all four are 0 when no      *)
(* event matches; labels of no shard are skipped.                          *)
(***************************************************************************)
\* the positions <<label position, block, event>> of the events of user_did
Matches(user_did, shard_ids) ==
    UNION { UNION { { <<i, j, n>> :
                        n \in { n \in DOMAIN protocol.shards[shard_ids[i]].state.blockchain[j].actions :
                                  protocol.shards[shard_ids[i]].state.blockchain[j].actions[n].user_did
                                     = user_did } } :
                    j \in DOMAIN protocol.shards[shard_ids[i]].state.blockchain } :
            i \in { i \in DOMAIN shard_ids : shard_ids[i] \in DOMAIN protocol.shards } }

event_at(shard_ids, pos) ==
    protocol.shards[shard_ids[pos[1]]].state.blockchain[pos[2]].actions[pos[3]]

RECURSIVE wide_total(_, _)
wide_total(shard_ids, S) ==
    IF S = {} THEN wide(u64_from(0))
    ELSE LET pos == CHOOSE pos \in S : TRUE
         IN  wide_add(wide_total(shard_ids, S \ {pos}), event_at(shard_ids, pos).value_diverted)

timestamps_at(shard_ids, S) == {event_at(shard_ids, pos).timestamp : pos \in S}
latest(T) == CHOOSE t \in T : \A u \in T : t >= u
earliest(T) == CHOOSE t \in T : \A u \in T : t <= u

C26_UserStatsCount ==
    last.op = "get_user_stats" /\ last.result # "Panic" =>
        LET S == Matches(last.args[1], last.args[2])
            T == timestamps_at(last.args[2], S)
        IN  /\ call.out.total_actions = u64_from(Cardinality(S))
            /\ call.out.campaigns_joined = u64_from(Cardinality(S))
            /\ wide(call.out.total_diverted) = wide_total(last.args[2], S)
            /\ call.out.streak_days =
                  IF S = {} THEN u64_from(0)
                  ELSE u64_from((latest(T) - earliest(T)) \div SecondsPerDay)

(***************************************************************************)
(* C27: a shard's online_nodes_count is the number of entries of its node  *)
(* registry whose is_online flag is set; update_node_status inserts the    *)
(* node when it is absent (active in this shard only) and otherwise        *)
(* updates it, setting the flag and the heartbeat to the chain's height.   *)
(***************************************************************************)
OnlineCountExact(p) ==
    \A k \in DOMAIN p.shards :
       p.shards[k].state.online_nodes_count
          = u64_from(Cardinality({n \in DOMAIN p.shards[k].nodes :
                                     p.shards[k].nodes[n].is_online}))

\* the node of identity polis_did in shard k after a heartbeat with flag is_online
Heartbeat(k, polis_did, is_online) ==
    /\ DOMAIN protocol'.shards[k].nodes = DOMAIN protocol.shards[k].nodes \cup {polis_did}
    /\ \A n \in DOMAIN protocol.shards[k].nodes \ {polis_did} :
          protocol'.shards[k].nodes[n] = protocol.shards[k].nodes[n]
    /\ protocol'.shards[k].nodes[polis_did].node_id = polis_did
    /\ protocol'.shards[k].nodes[polis_did].is_online = is_online
    /\ protocol'.shards[k].nodes[polis_did].last_heartbeat_block
          = u64_from(Len(protocol.shards[k].state.blockchain))
    /\ IF polis_did \in DOMAIN protocol.shards[k].nodes
       THEN /\ protocol'.shards[k].nodes[polis_did].active_shards
                 = protocol.shards[k].nodes[polis_did].active_shards
            /\ protocol'.shards[k].nodes[polis_did].reputation_score
                 = protocol.shards[k].nodes[polis_did].reputation_score
       ELSE /\ protocol'.shards[k].nodes[polis_did].active_shards = <<k>>
            /\ protocol'.shards[k].nodes[polis_did].reputation_score = u64_from(0)

C27_OnlineCount ==
    [][ /\ OnlineCountExact(protocol')
        /\ ( last'.op = "update_user_activity" /\ last'.result = "Ok"
             => \A k \in routed_to(did_of(last'.args[1])) \cap DOMAIN protocol.shards :
                   Heartbeat(k, did_of(last'.args[1]), last'.args[2]) )
      ]_vars

\* an identity went offline in a shard that holds a block, and is no longer counted
C27_Witness ==
    /\ last.op = "update_user_activity" /\ last.result = "Ok" /\ ~last.args[2]
    /\ \E k \in routed_to(did_of(last.args[1])) :
          /\ did_of(last.args[1]) \in DOMAIN protocol.shards[k].nodes
          /\ ~protocol.shards[k].nodes[did_of(last.args[1])].is_online
          /\ protocol.shards[k].nodes[did_of(last.args[1])].last_heartbeat_block = u64_from(1)
          /\ protocol.shards[k].state.online_nodes_count = u64_from(0)

(***************************************************************************)
(* C28: the handlers run under one exclusive lock held for the whole core  *)
(* operation: at most one handler is inside the coordinator at a time, so  *)
(* no handler sees a shard between the campaign update, the enqueue and    *)
(* the append of another handler's record_user_action, and whenever no     *)
(* handler is inside, the coordinator's state and the responses given are  *)
(* those of running the finished requests one after another in some order. *)
(***************************************************************************)
InCoordinator == {r \in DOMAIN server.handlers : server.handlers[r].pc \notin {"start", "done"}}
Finished == {r \in DOMAIN server.handlers : server.handlers[r].pc = "done"}

Orders(S) ==
    {q \in [1..Cardinality(S) -> S] : \A i, j \in DOMAIN q : i # j => q[i] # q[j]}

\* running the requests q[i], q[i+1], .. one after another from coordinator p gives the
\* responses the handlers gave and ends in the present coordinator
RECURSIVE one_after_another(_, _, _)
one_after_another(q, i, p) ==
    IF i > Len(q) THEN p = protocol
    ELSE /\ handler_core(p, InFlight[q[i]], 1, overflow_checks).result
               = server.handlers[q[i]].response
         /\ one_after_another(q, i + 1,
                handler_core(p, InFlight[q[i]], 1, overflow_checks).protocol)

C28_Serialized ==
    /\ Cardinality(InCoordinator) <= 1
    /\ InCoordinator = {} =>
          \E q \in Orders(Finished) :
             one_after_another(q, 1, PolisProtocol_new(protocol.order))

\* the four requests were served, the record after the registration and the submission:
\* its block in centrist-moderate holds the submitted event too
C28_Witness ==
    /\ Finished = DOMAIN InFlight
    /\ \A r \in Finished : server.handlers[r].response = "Ok"
    /\ Len(protocol.shards["centrist-moderate"].state.blockchain) = 1
    /\ Len(protocol.shards["centrist-moderate"].state.blockchain[1].actions) = 2
    /\ Len(protocol.shards["progressive-left"].state.blockchain) = 1

(***************************************************************************)
(* C29: the hash of an event depends only on its origin identity, kind,    *)
(* target, value and timestamp: two events that agree on these five fields *)
(* have the same hash, whatever their action ids and proofs.               *)
(***************************************************************************)
EventHashedFields ==
    {"user_did", "action_type", "target_entity", "value_diverted", "timestamp"}

C29_HashOfFiveFields ==
    call.fn = "hash" /\ (\A f \in EventHashedFields : call.arg[1][f] = call.arg[2][f])
        => call.out[1] = call.out[2]

\* two events that differ in both the action id and the proof were hashed alike
C29_Witness ==
    /\ call.fn = "hash"
    /\ \A f \in EventHashedFields : call.arg[1][f] = call.arg[2][f]
    /\ call.arg[1].action_id # call.arg[2].action_id
    /\ call.arg[1].zk_proof # call.arg[2].zk_proof
    /\ call.out[1] = call.out[2]

(***************************************************************************)
(* C30: the five default shards cover the whole space: every point whose   *)
(* three coordinates are in [-100, 100] is routed to at least one default  *)
(* shard.                                                                  *)
(***************************************************************************)
InSpace(point) ==
    \A d \in DOMAIN point : point[d] # f32_NaN /\ -100 <= point[d] /\ point[d] <= 100

C30_DefaultShardsCover ==
    call.fn = "route_user" /\ InSpace(call.arg.ideology_vector) => call.out # <<>>

(***************************************************************************)
(* C31: the block produce_block returns has index = chain length,          *)
(* previous_hash = hash of the tail (the zero sentinel on an empty chain), *)
(* union_strength = number of events, merkle_root = calculate_merkle_root  *)
(* of the pool and hash = H(index, timestamp, previous_hash, merkle_root,  *)
(* union_strength); and add_block of that block, called right after        *)
(* produce_block on the same shard, succeeds.                              *)
(***************************************************************************)
C31_ProducedBlockAppends ==
    [][ /\ (last'.op = "produce_block" /\ last'.result = "Ok") =>
              /\ last'.block[1].index = u64_from(Len(shard.state.blockchain))
              /\ last'.block[1].previous_hash =
                    IF shard.state.blockchain = <<>> THEN zero_hash
                    ELSE shard.state.blockchain[Len(shard.state.blockchain)].hash
              /\ last'.block[1].union_strength = u64_from(Len(shard.pending_actions))
              /\ last'.block[1].merkle_root = calculate_merkle_root(shard.pending_actions)
              /\ last'.block[1].hash =
                    sha256_hex(<< le_bytes_u64(last'.block[1].index),
                                  le_bytes_i64(last'.block[1].timestamp) >>
                               \o last'.block[1].previous_hash
                               \o last'.block[1].merkle_root
                               \o << le_bytes_u64(last'.block[1].union_strength) >>)
        /\ ( /\ last.op = "produce_block" /\ last.result = "Ok"
             /\ last'.op = "add_block" /\ last'.block = last.block )
           => last'.result = "Ok"
      ]_vars

(***************************************************************************)
(* C32: the chain of every shard label is append-only across all the       *)
(* coordinator's operations: the blocks a label has before a step are a    *)
(* prefix of the blocks it has after it, also when register_shard is       *)
(* called with a label that is already present.                            *)
(***************************************************************************)
IsPrefix(q, w) == Len(q) <= Len(w) /\ SubSeq(w, 1, Len(q)) = q

C32_ChainsAppendOnly ==
    [][ \A k \in DOMAIN protocol.shards :
           /\ k \in DOMAIN protocol'.shards
           /\ IsPrefix(protocol.shards[k].state.blockchain,
                       protocol'.shards[k].state.blockchain) ]_vars

(***************************************************************************)
(* C33: get_blockchain_stats returns total_blocks = sum of the shards'     *)
(* heights, total_pending_actions = sum of the pool sizes,                 *)
(* latest_block_timestamp = the greatest timestamp of a tail block (0 when *)
(* no shard has a block), and transactions_per_second = events in all      *)
(* blocks / max(1, now - latest_block_timestamp) when a block exists and   *)
(* that time is at most 10 seconds, and 0 otherwise.                       *)
(***************************************************************************)
BlockPositions ==
    UNION { {<<k, j>> : j \in DOMAIN protocol.shards[k].state.blockchain} :
            k \in DOMAIN protocol.shards }
PendingPositions ==
    UNION { {<<k, i>> : i \in DOMAIN protocol.shards[k].pending_actions} :
            k \in DOMAIN protocol.shards }
EventPositions ==
    UNION { {<<pos, n>> :
                n \in DOMAIN protocol.shards[pos[1]].state.blockchain[pos[2]].actions} :
            pos \in BlockPositions }
TailTimestamps ==
    { protocol.shards[k].state.blockchain[Len(protocol.shards[k].state.blockchain)].timestamp :
        k \in {k \in DOMAIN protocol.shards : protocol.shards[k].state.blockchain # <<>>} }
Elapsed(current_time) ==
    IF current_time - latest(TailTimestamps) >= 1
    THEN current_time - latest(TailTimestamps) ELSE 1

occurrences(s, e) ==
    Cardinality({i \in DOMAIN s.pending_actions : s.pending_actions[i] = e})
    + Cardinality(UNION { { <<b, i>> : i \in { j \in DOMAIN s.state.blockchain[b].actions :
                                                  s.state.blockchain[b].actions[j] = e } } :
                          b \in DOMAIN s.state.blockchain })

held(s) ==
    Range(s.pending_actions)
    \cup UNION {Range(s.state.blockchain[b].actions) : b \in DOMAIN s.state.blockchain}

\* the event the step hands to shard k's enqueue, if any
Enqueues(k, e) ==
    \/ /\ last'.op = "submit_action"
       /\ k = last'.args[1]
       /\ e = last'.args[2]
    \/ /\ last'.op = "record_user_action"
       /\ last'.args[1] \in DOMAIN protocol.firebase_users
       /\ k \in Range(protocol.user_routes[protocol.firebase_users[last'.args[1]].polis_did])
       /\ e.zk_proof = firebase_prefix \o last'.args[1]
       /\ e.target_entity = last'.args[3]
       /\ e.value_diverted = last'.args[4]

C34_Step(k, e) ==
    LET before == occurrences(protocol.shards[k], e)
        after == occurrences(protocol'.shards[k], e)
    IN  /\ after >= before
        /\ after <= before + (IF Enqueues(k, e) THEN 1 ELSE 0)
        /\ Enqueues(k, e) /\ last'.result = "Ok" => after = before + 1

C34_NoEventLostOrDuplicated ==
    [][\A k \in DOMAIN protocol.shards :
          \A e \in held(protocol.shards[k]) \cup held(protocol'.shards[k]) :
             C34_Step(k, e)]_vars

(***************************************************************************)
(* C35: every event in the shard's pending pool and in every block of its  *)
(* chain satisfies verify_zk_proof                                         *)
(***************************************************************************)
C35_HeldEventsHaveValidProofs ==
    \A e \in held(shard) : verify_zk_proof(e)

\* a forged block holding an event with an invalid proof has just been refused by a
\* shard that holds events in its pool and in its chain
C35_Witness ==
    /\ last.op = "add_block"
    /\ last.result = VerificationFailed
    /\ \E i \in DOMAIN last.block[1].actions : ~verify_zk_proof(last.block[1].actions[i])
    /\ Len(chain) >= 1
    /\ Len(pool) >= 1

(***************************************************************************)
(* C36: in every shard of the coordinator the campaign counters agree with *)
(* the chain: the campaigns' verified_participants_count add up to the     *)
(* shard's total_union_strength, and their total_capital_diverted to the   *)
(* shard's total_capital_diverted                                          *)
(***************************************************************************)
campaign_participants(s) ==
    [i \in DOMAIN s.state.active_campaigns |->
        s.state.active_campaigns[i].verified_participants_count]

campaign_capital(s) ==
    [i \in DOMAIN s.state.active_campaigns |->
        s.state.active_campaigns[i].total_capital_diverted]

C36_CampaignCountersAgree ==
    \A k \in DOMAIN protocol.shards :
       /\ wide_sum(campaign_participants(protocol.shards[k]))
             = wide(protocol.shards[k].state.total_union_strength)
       /\ wide_sum(campaign_capital(protocol.shards[k]))
             = wide(protocol.shards[k].state.total_capital_diverted)

(***************************************************************************)
(* C37: for every registered identity, the action counter the coordinator  *)
(* keeps (FirebaseUserInfo.total_actions) equals the total_actions that    *)
(* get_user_stats reports for the identity over the shards of its routing  *)
(* table entry                                                             *)
(***************************************************************************)
reported_actions(firebase_uid) ==
    get_user_stats(protocol,
                   protocol.firebase_users[firebase_uid].polis_did,
                   protocol.user_routes[protocol.firebase_users[firebase_uid].polis_did],
                   overflow_checks).stats.total_actions

C37_CounterEqualsReportedActions ==
    last.result = "Ok" =>
       \A firebase_uid \in DOMAIN protocol.firebase_users :
          protocol.firebase_users[firebase_uid].total_actions
             = reported_actions(firebase_uid)

(***************************************************************************)
(* C38: in every state, every campaign that is Active has                  *)
(* verified_participants_count < goal_participants, and every campaign     *)
(* that is Achieved has verified_participants_count >= goal_participants   *)
(***************************************************************************)
C38_StatusMatchesGoal ==
    \A k \in DOMAIN protocol.shards : \A i \in DOMAIN campaigns_of(k) :
       LET c == campaigns_of(k)[i]
       IN  /\ c.status = "Active" =>
                 ~u64_ge(c.verified_participants_count, c.goal_participants)
           /\ c.status = "Achieved" =>
                 u64_ge(c.verified_participants_count, c.goal_participants)

(***************************************************************************)
(* C39: the u64 accumulators never wrap: each shard's                      *)
(* total_capital_diverted, each campaign's total_capital_diverted and      *)
(* get_global_stats().total_capital_diverted equal the exact sum of the    *)
(* values they accumulate (the events of the shard's blocks, those of them *)
(* on the campaign's target, the events of all shards' blocks).  Stated    *)
(* for the states no call has panicked in.                                 *)
(***************************************************************************)
values_of(events) == [i \in DOMAIN events |-> events[i].value_diverted]

sealed_in(k) == chain_actions(protocol.shards[k].state.blockchain)

sealed_on(k, target) ==
    LET on_target(a) == a.target_entity = target
    IN  SelectSeq(sealed_in(k), on_target)

RECURSIVE sealed_from(_)
sealed_from(i) ==
    IF i > Len(protocol.order) THEN <<>>
    ELSE sealed_in(protocol.order[i]) \o sealed_from(i + 1)

C39_AccumulatorsExact ==
    last.result # "Panic" =>
       /\ \A k \in DOMAIN protocol.shards :
             /\ wide(protocol.shards[k].state.total_capital_diverted)
                   = wide_sum(values_of(sealed_in(k)))
             /\ \A i \in DOMAIN campaigns_of(k) :
                   wide(campaigns_of(k)[i].total_capital_diverted)
                      = wide_sum(values_of(sealed_on(k, campaigns_of(k)[i].campaign_id)))
       /\ get_global_stats(protocol, overflow_checks).result = "Ok" =>
             wide(get_global_stats(protocol, overflow_checks).stats.total_capital_diverted)
                = wide_sum(values_of(sealed_from(1)))

(***************************************************************************)
(* C40: every handler that waits for the coordinator's lock eventually     *)
(* acquires it, and every handler that holds it eventually releases it, so *)
(* the lock is never left permanently unavailable                          *)
(***************************************************************************)
C40_LockAcquiredAndReleased ==
    \A r \in DOMAIN InFlight :
       /\ at(r, "start") ~> server.lock = <<r>>
       /\ server.lock = <<r>> ~> server.lock # <<r>>

====
